---- MODULE Spec2Model ----
(***************************************************************************)
(* The orchestrator's Process Supervisor (spawnAgent, its exit and error   *)
(* handlers, isAgentRunning, waitForAgent, getAgentStatus, killAgent) with *)
(* the dashboard database rows it mirrors its task records into, the OS    *)
(* processes it launches and the per-task log files.                       *)
(*                                                                         *)
(* Time is counted in units of one poll interval (500 ms in the source):   *)
(* a blocking call records how long it has slept.  A date (new Date(),     *)
(* CURRENT_TIMESTAMP) is the single value Date: nothing reads more of a    *)
(* date than whether it is set.  A nullable value is <<>> (null) or <<v>>. *)
(***************************************************************************)
EXTENDS Integers, Sequences, FiniteSets, TLC

\* ---- bounds of the model
MaxTasks == 1       \* tasks spawned in one run
MaxTimeout == 1     \* largest timeoutMs a caller passes, in poll intervals
MaxOut == 1         \* lines one subprocess writes to its log

Null == <<>>
Some(x) == <<x>>

Ids == 1..MaxTasks                       \* task ids callers may name
Timeouts == 0..MaxTimeout
Modes == {"investigate", "implement"}   \* spawn inputs; no operation reads the mode back
\* The agents directory: "database" has a role definition, "blank" is an
\* empty file, "ghost" has no file.
Roles == {"database", "blank", "ghost"}
AgentsDir == [database |-> "You are the database agent", blank |-> ""]
\* Exit codes the exit event carries: a number, or null when a signal
\* ended the process.
ExitCodes == {Some(0), Some(1), Null}
\* Lines a subprocess writes: JSON records carrying token usage.
LineKinds == {"usage"}
Date == "date"
pollInterval == 1
KillSentinel == -1
daysToKeep == 7     \* cleanupOldData(7) at Dashboard Server start-up
MaxRows == 2        \* task rows in the Store when the Dashboard Server starts
MaxLines == 2       \* records a subprocess has written to a log that is parsed
MaxCalls == 3       \* parseLog calls a viewer makes
MaxDash == 2        \* Dashboard Server processes ever started

\* A point in time: a calendar day (UTC) and a time of day.
Days == 0..(daysToKeep + 1)
Hours == {0, 12}
Times == [day : Days, hour : Hours]
\* The model has no clock: rows inserted during a run carry this start time.
StartedNow == [day |-> daysToKeep + 1, hour |-> 0]

\* Supervisor processes running on one machine against one Store.
Sups == 1..2
\* PROJECT_NAME of a Supervisor: the basename of its working directory.
ProjectNames == {"alpha", "beta"}

VARIABLES
  runningAgents,  \* Map<string, AgentTask>: id -> in-memory task record
  db,             \* TRUE when initDashboardDB opened the database
  store,          \* the agents table: id -> row
  os,             \* id -> "none" | "live" | "gone": the OS process of the task
  termSent,       \* id -> SIGTERM was delivered to the process
  exitEv,         \* id -> <<>> or <<code>>: exit event queued on the event loop
  errorEv,        \* id -> an error event is queued on the event loop
  log,            \* id -> the log file, a sequence of blocks/lines; <<>> = no file
  fd,             \* id -> "none" | "open" | "closed": logStream descriptor
  waiter,         \* the blocking getAgentStatus call in flight, if any
  ret,            \* what the last operation or handler returned
  justSpawned,    \* id spawned by the immediately preceding step, or 0
  lastKill,       \* the last killAgent call: its task id and what it returned
  projects,       \* the projects table: id -> row
  sessions,       \* the sessions table: id -> row
  http,           \* what the Dashboard Server's last request or job returned
  sub,            \* the /api/events subscription: its closure variables and frames
  peers,          \* Supervisor processes sharing one Store: s -> its module state
  shared,         \* the Store as those Supervisors see it, and its write lock
  parser,         \* a log a viewer has open and what parseLog made of it
  dash,           \* Dashboard Server processes and their pid and port marker files
  poller          \* the Dashboard Client's log panel polling the delta log endpoint

\* the Dashboard Server's side of the state
dashVars == <<projects, sessions, http, sub>>

\* several Supervisor processes on one machine
fleetVars == <<peers, shared>>

\* the transcript parser's caller
parserVars == <<parser>>

\* the Dashboard Server processes started by Supervisors
markerVars == <<dash>>

\* the Dashboard Client
clientVars == <<poller>>

\* one Supervisor process with its subprocesses and files
supVars == <<runningAgents, db, store, os, termSent, exitEv, errorEv, log, fd,
             waiter, ret, justSpawned, lastKill>>

vars == <<runningAgents, db, store, os, termSent, exitEv, errorEv, log, fd,
          waiter, ret, justSpawned, lastKill, projects, sessions, http, sub,
          peers, shared, parser, dash, poller>>

Known(t) == t \in DOMAIN runningAgents

\* The value an operation hands back; fields that do not apply keep defaults.
Ret(op, id, res) ==
  [op |-> op, id |-> id, res |-> res, status |-> "", pid |-> Null,
   block |-> FALSE, timedOut |-> FALSE, fresh |-> FALSE, waited |-> 0,
   code |-> Null, prev |-> "none", agent |-> "", roles |-> {}]

\* { task } or { task, timedOut: true }.  fresh: the call came immediately
\* after the spawn of t; waited: how long the call slept before it returned.
TaskRet(op, t, task, block, timedOut, fresh, waited) ==
  [op |-> op, id |-> t, res |-> "ok", status |-> task.status, pid |-> task.pid,
   block |-> block, timedOut |-> timedOut, fresh |-> fresh, waited |-> waited,
   code |-> Null, prev |-> "none", agent |-> "", roles |-> {}]

IdleWaiter == [pc |-> "idle", task |-> 0, elapsed |-> 0, timeout |-> 0]

\* ---- the dashboard database writes

\* Variant: the row is written with the status column left to a later update.
dbInsertAgentNoStatus(s, t, task) ==
  IF db
  THEN s @@ (t :> [status |-> "", pid |-> task.pid,
                   completed_at |-> Null, exit_code |-> Null,
                   input_tokens |-> 0, output_tokens |-> 0,
                   started_at |-> StartedNow])
  ELSE s

dbInsertAgent(s, t, task) ==
  IF db
  THEN s @@ (t :> [status |-> "running", pid |-> task.pid,
                   completed_at |-> Null, exit_code |-> Null,
                   input_tokens |-> 0, output_tokens |-> 0,
                   started_at |-> StartedNow])
  ELSE s

\* Variant: the status is written, the completion time is left for later.
dbUpdateAgentStatusOnly(s, t, status, exitCode) ==
  IF db /\ t \in DOMAIN s
  THEN [s EXCEPT ![t].status = status, ![t].exit_code = exitCode]
  ELSE s

dbUpdateAgentStatus(s, t, status, exitCode) ==
  IF db /\ t \in DOMAIN s
  THEN [s EXCEPT ![t].status = status, ![t].exit_code = exitCode,
                 ![t].completed_at = Some(Date)]
  ELSE s

dbUpdateAgentTokens(s, t, inputTokens, outputTokens) ==
  IF db /\ t \in DOMAIN s
  THEN [s EXCEPT ![t].input_tokens = inputTokens, ![t].output_tokens = outputTokens]
  ELSE s

\* ---- pure helpers

RECURSIVE parseTokenUsage(_)
parseTokenUsage(logContent) ==
  IF logContent = <<>> THEN 0
  ELSE (IF Head(logContent) = "usage" THEN 1 ELSE 0) + parseTokenUsage(Tail(logContent))

readAgentPrompt(agentName) ==
  IF agentName \in DOMAIN AgentsDir THEN Some(AgentsDir[agentName]) ELSE Null

\* Variant: only the roles whose file has content are listed.
listAvailableAgentsWithPrompt == {a \in DOMAIN AgentsDir : AgentsDir[a] # ""}

\* the *.md files of the agents directory, without the extension
listAvailableAgents == DOMAIN AgentsDir

\* !agentPrompt: null and the empty string are both falsy
PromptMissing(agentName) ==
  readAgentPrompt(agentName) = Null \/ readAgentPrompt(agentName) = Some("")

\* Variant: the handler tests the code for truthiness, so a null code (the
\* process was ended by a signal) counts as success.
ExitStatusTruthy(code) ==
  IF code = Some(0) \/ code = Null THEN "completed" ELSE "failed"

ExitStatus(code) == IF code = Some(0) THEN "completed" ELSE "failed"

\* process.kill(pid, sig) succeeds when the process exists
ProcessExists(t) == os[t] = "live"

OutLines(t) == Cardinality({i \in DOMAIN log[t] : log[t][i] \in LineKinds})

\* ---- the Dashboard Server's responses and subscriptions, before any

NoResponse == [op |-> "none"]

NoSubscription == [state |-> "none"]

\* ---- Init: the Supervisor has started; initDashboardDB succeeded or failed

\* Dashboard Server processes and the ports they may listen on (BASE_PORT
\* upwards).
DashIds == 1..MaxDash
Ports == 1..MaxDash

\* No Dashboard Server was ever started: no marker files.  pidFile and
\* portFile are null or hold a process id and a port; by is the Supervisor
\* that spawned the process.
NoDashboard ==
  [pidFile |-> Null, portFile |-> Null,
   procs |-> [d \in DashIds |-> [pc |-> "none", port |-> 0, by |-> 0]]]

\* useLogStream with no task selected: agentId null, log "", offsetRef 0, no
\* fetch in flight.  flight is null or holds the request and how far the
\* server has got with it.
NoPoller == [agentId |-> 0, log |-> <<>>, offset |-> 0, flight |-> Null]

\* No log is open: nothing has been parsed.  entries and first are null or
\* hold the result of the last and of the first parse of raw; inHeader is
\* the value the local of that name had when the last call returned.
NoLog ==
  [raw |-> <<>>, opened |-> FALSE, entries |-> Null, first |-> Null,
   inHeader |-> FALSE, calls |-> 0]

\* A Supervisor process before main(): db, projectId, sessionId are null and
\* runningAgents is empty.  existing holds the row the SELECT of
\* initDashboardDB found (0: none), taskId the id of the INSERT in progress.
PeerDown ==
  [pc |-> "down", db |-> FALSE, name |-> "", existing |-> 0, projectId |-> 0,
   sessionId |-> 0, runningAgents |-> {}, taskId |-> <<>>]

\* The database file before any Supervisor opened it.  writer is the process
\* whose write statement holds the database's write lock, 0 when it is free.
EmptyStore ==
  [projects |-> <<>>, sessions |-> <<>>, agents |-> <<>>, writer |-> 0]

Init ==
  /\ runningAgents = <<>>
  /\ db \in BOOLEAN
  /\ store = <<>>
  /\ os = [t \in Ids |-> "none"]
  /\ termSent = [t \in Ids |-> FALSE]
  /\ exitEv = [t \in Ids |-> <<>>]
  /\ errorEv = [t \in Ids |-> FALSE]
  /\ log = [t \in Ids |-> <<>>]
  /\ fd = [t \in Ids |-> "none"]
  /\ waiter = IdleWaiter
  /\ ret = Ret("init", 0, "")
  /\ justSpawned = 0
  /\ lastKill = [id |-> 0, res |-> "none"]
  /\ projects = IF db THEN (1 :> [name |-> "project"]) ELSE <<>>
  /\ sessions = IF db THEN (1 :> [status |-> "active", ended_at |-> Null]) ELSE <<>>
  /\ http = NoResponse
  /\ sub = NoSubscription
  /\ peers = [s \in Sups |-> PeerDown]
  /\ shared = EmptyStore
  /\ parser = NoLog
  /\ dash = NoDashboard
  /\ poller = NoPoller

\* ---- spawnAgent

spawnAgentNotFound(agentName) ==
  /\ PromptMissing(agentName)
  /\ ret' = [Ret("spawn", 0, "AgentNotFound") EXCEPT
               !.agent = agentName, !.roles = listAvailableAgents]
  /\ justSpawned' = 0
  /\ UNCHANGED dashVars
  /\ UNCHANGED <<fleetVars, parserVars, markerVars, clientVars>>
  /\ UNCHANGED <<runningAgents, db, store, os, termSent, exitEv, errorEv, log,
                 fd, waiter, lastKill>>

\* Variant: the record never takes the pid of the process.
SpawnedPidLost(t, launched) == Null

\* proc.pid || null
SpawnedPid(t, launched) == IF launched THEN Some(t) ELSE Null

\* launched = FALSE: the OS could not start the executable; proc.pid is
\* undefined and the error event is queued.
spawnAgent(agentName, mode, launched) ==
  /\ ~PromptMissing(agentName)
  /\ Cardinality(DOMAIN runningAgents) < MaxTasks
  /\ LET t == Cardinality(DOMAIN runningAgents) + 1
         agentTask == [agentName |-> agentName,
                       status |-> "running", pid |-> SpawnedPid(t, launched),
                       completedAt |-> Null, exitCode |-> Null]
     IN /\ log' = [log EXCEPT ![t] = <<"header">>]
        /\ fd' = [fd EXCEPT ![t] = "open"]
        /\ os' = [os EXCEPT ![t] = IF launched THEN "live" ELSE "none"]
        /\ errorEv' = [errorEv EXCEPT ![t] = ~launched]
        /\ store' = dbInsertAgent(store, t, agentTask)
        /\ runningAgents' = runningAgents @@ (t :> agentTask)
        /\ ret' = [TaskRet("spawn", t, agentTask, FALSE, FALSE, FALSE, 0) EXCEPT
                     !.agent = agentName]
        /\ justSpawned' = t
        /\ UNCHANGED dashVars
  /\ UNCHANGED <<fleetVars, parserVars, markerVars, clientVars>>
  /\ UNCHANGED <<db, termSent, exitEv, waiter, lastKill>>

\* ---- the subprocess

ProcWrite(t, line) ==
  /\ os[t] = "live"
  /\ OutLines(t) < MaxOut
  /\ log' = [log EXCEPT ![t] = Append(@, line)]
  /\ justSpawned' = 0
  /\ UNCHANGED dashVars
  /\ UNCHANGED <<fleetVars, parserVars, markerVars, clientVars>>
  /\ UNCHANGED <<runningAgents, db, store, os, termSent, exitEv, errorEv, fd,
                 waiter, ret, lastKill>>

\* Variant: the exit event is queued while the process is still running.
ProcExitEarly(t, code) ==
  /\ os[t] = "live"
  /\ exitEv' = [exitEv EXCEPT ![t] = <<code>>]
  /\ justSpawned' = 0
  /\ UNCHANGED dashVars
  /\ UNCHANGED <<fleetVars, parserVars, markerVars, clientVars>>
  /\ UNCHANGED <<runningAgents, db, store, os, termSent, errorEv, log, fd,
                 waiter, ret, lastKill>>

\* The process ends and is reaped; its exit event is queued.
ProcExit(t, code) ==
  /\ os[t] = "live"
  /\ os' = [os EXCEPT ![t] = "gone"]
  /\ exitEv' = [exitEv EXCEPT ![t] = <<code>>]
  /\ justSpawned' = 0
  /\ UNCHANGED dashVars
  /\ UNCHANGED <<fleetVars, parserVars, markerVars, clientVars>>
  /\ UNCHANGED <<runningAgents, db, store, termSent, errorEv, log, fd,
                 waiter, ret, lastKill>>

\* The runtime emits "error" for a child that was started (child_process:
\* "the 'exit' event may or may not fire after an error has occurred").
\* The process goes on and its exit is still to come.  Once per process.
ProcError(t) ==
  /\ os[t] = "live"
  /\ ~errorEv[t]
  /\ \A i \in DOMAIN log[t] : log[t][i] # "error"
  /\ errorEv' = [errorEv EXCEPT ![t] = TRUE]
  /\ justSpawned' = 0
  /\ UNCHANGED dashVars
  /\ UNCHANGED <<fleetVars, parserVars, markerVars, clientVars>>
  /\ UNCHANGED <<runningAgents, db, store, os, termSent, exitEv, log, fd,
                 waiter, ret, lastKill>>

\* ---- the exit and error handlers registered by spawnAgent

ExitTask(task, code) ==
  [task EXCEPT !.status = ExitStatus(code), !.completedAt = Some(Date),
               !.exitCode = code]

\* Variant: the token counts are written and the status update is left out.
ExitStoreTokensOnly(s, t, code, logContent) ==
  dbUpdateAgentTokens(s, t, parseTokenUsage(logContent) + 1,
                      parseTokenUsage(logContent) + 1)

ExitStore(s, t, code, logContent) ==
  LET s1 == dbUpdateAgentStatus(s, t, ExitStatus(code), code)
      tokens == parseTokenUsage(logContent)
  IN IF tokens > 0 THEN dbUpdateAgentTokens(s1, t, tokens, tokens) ELSE s1

\* Variant: dbUpdateAgentStatus has no try/catch, so while the Store takes
\* no writes its exception ends the handler after the record was updated.
ExitHandlerRaises(t) ==
  /\ exitEv[t] # <<>>
  /\ LET code == exitEv[t][1]
     IN /\ runningAgents' =
             IF Known(t) THEN [runningAgents EXCEPT ![t] = ExitTask(@, code)]
             ELSE runningAgents
        /\ IF db \/ ~Known(t)
           THEN /\ store' = ExitStore(store, t, code, log[t])
                /\ log' = IF Known(t) THEN [log EXCEPT ![t] = Append(@, "footer")]
                          ELSE log
                /\ fd' = [fd EXCEPT ![t] = "closed"]
           ELSE UNCHANGED <<store, log, fd>>
        /\ ret' = [Ret("exit", t, "ok") EXCEPT !.code = code]
  /\ exitEv' = [exitEv EXCEPT ![t] = <<>>]
  /\ justSpawned' = 0
  /\ UNCHANGED dashVars
  /\ UNCHANGED <<fleetVars, parserVars, markerVars, clientVars>>
  /\ UNCHANGED <<db, os, termSent, errorEv, waiter, lastKill>>

\* proc.on("exit", code => ...)
ExitHandler(t) ==
  /\ exitEv[t] # <<>>
  /\ LET code == exitEv[t][1]
     IN /\ IF Known(t)
           THEN /\ runningAgents' = [runningAgents EXCEPT ![t] = ExitTask(@, code)]
                /\ store' = ExitStore(store, t, code, log[t])
                /\ log' = [log EXCEPT ![t] = Append(@, "footer")]
           ELSE UNCHANGED <<runningAgents, store, log>>
        /\ ret' = [Ret("exit", t, "ok") EXCEPT !.code = code]
  /\ fd' = [fd EXCEPT ![t] = "closed"]
  /\ exitEv' = [exitEv EXCEPT ![t] = <<>>]
  /\ justSpawned' = 0
  /\ UNCHANGED dashVars
  /\ UNCHANGED <<fleetVars, parserVars, markerVars, clientVars>>
  /\ UNCHANGED <<db, os, termSent, errorEv, waiter, lastKill>>

\* ---- the exit handler as a reader of the Store sees it: its two UPDATE
\* statements one after the other

\* Variant: the handler's status update is not made before the footer.
ExitFirstWriteLeftOut(s, t, code, logContent) == s

\* Variant: the first statement of the handler writes the token counts.
ExitTokensFirst(s, t, code, logContent) ==
  dbUpdateAgentTokens(s, t, parseTokenUsage(logContent), parseTokenUsage(logContent))

\* dbUpdateAgentStatus(taskId, task.status, code)
ExitFirstWrite(s, t, code, logContent) ==
  dbUpdateAgentStatus(s, t, ExitStatus(code), code)

\* if (inputTokens > 0 || outputTokens > 0) dbUpdateAgentTokens(...)
ExitSecondWrite(s, t, code, logContent) ==
  IF parseTokenUsage(logContent) > 0
  THEN dbUpdateAgentTokens(s, t, parseTokenUsage(logContent), parseTokenUsage(logContent))
  ELSE s

\* no exit handler is between its two statements
HandlerIdle == ret.op # "exitStatus"

\* the handler up to and including its status update; res tells whether the
\* Store took it or the catch logged it
ExitStatusWrite(t) ==
  /\ HandlerIdle
  /\ exitEv[t] # <<>>
  /\ Known(t)
  /\ LET code == exitEv[t][1]
     IN /\ runningAgents' = [runningAgents EXCEPT ![t] = ExitTask(@, code)]
        /\ store' = ExitFirstWrite(store, t, code, log[t])
        /\ ret' = [Ret("exitStatus", t, IF db THEN "ok" ELSE "StoreError")
                     EXCEPT !.code = code]
  /\ justSpawned' = 0
  /\ UNCHANGED dashVars
  /\ UNCHANGED <<fleetVars, parserVars, markerVars, clientVars>>
  /\ UNCHANGED <<db, os, termSent, exitEv, errorEv, log, fd, waiter, lastKill>>

\* the rest of the handler: token counts, footer, closeSync
ExitTokensWrite(t) ==
  /\ ret.op = "exitStatus"
  /\ ret.id = t
  /\ store' = ExitSecondWrite(store, t, ret.code, log[t])
  /\ log' = [log EXCEPT ![t] = Append(@, "footer")]
  /\ fd' = [fd EXCEPT ![t] = "closed"]
  /\ exitEv' = [exitEv EXCEPT ![t] = <<>>]
  /\ ret' = [Ret("exit", t, "ok") EXCEPT !.code = ret.code]
  /\ justSpawned' = 0
  /\ UNCHANGED dashVars
  /\ UNCHANGED <<fleetVars, parserVars, markerVars, clientVars>>
  /\ UNCHANGED <<runningAgents, db, os, termSent, errorEv, waiter, lastKill>>

\* Variant: the error handler stamps the completion time and leaves the status.
ErrorTaskNoStatus(task) == [task EXCEPT !.completedAt = Some(Date)]

ErrorTask(task) == [task EXCEPT !.status = "failed", !.completedAt = Some(Date)]

\* proc.on("error", err => ...)
ErrorHandler(t) ==
  /\ errorEv[t]
  /\ IF Known(t)
     THEN /\ runningAgents' = [runningAgents EXCEPT ![t] = ErrorTask(@)]
          /\ store' = dbUpdateAgentStatus(store, t, "failed", Null)
     ELSE UNCHANGED <<runningAgents, store>>
  /\ log' = [log EXCEPT ![t] = Append(@, "error")]
  /\ fd' = [fd EXCEPT ![t] = "closed"]
  /\ errorEv' = [errorEv EXCEPT ![t] = FALSE]
  /\ ret' = Ret("error", t, "ok")
  /\ justSpawned' = 0
  /\ UNCHANGED dashVars
  /\ UNCHANGED <<fleetVars, parserVars, markerVars, clientVars>>
  /\ UNCHANGED <<db, os, termSent, exitEv, waiter, lastKill>>

\* ---- isAgentRunning: its result and its effect on the record and the row

isAgentRunning(t) ==
  /\ runningAgents[t].status = "running"
  /\ runningAgents[t].pid # Null
  /\ ProcessExists(t)

\* Variant: the catch branch does not look at the status it overwrites.
ProbeFailedAnyStatus(t) ==
  /\ runningAgents[t].pid # Null
  /\ ~ProcessExists(t)

\* the catch branch: the probe threw
ProbeFailed(t) ==
  /\ runningAgents[t].status = "running"
  /\ runningAgents[t].pid # Null
  /\ ~ProcessExists(t)

\* Variant: try and catch swapped, the record is completed when the probe
\* finds the process.
ProbedAgentsInverted(t) ==
  IF isAgentRunning(t)
  THEN [runningAgents EXCEPT ![t].status = "completed", ![t].completedAt = Some(Date)]
  ELSE runningAgents

ProbedAgents(t) ==
  IF ProbeFailed(t)
  THEN [runningAgents EXCEPT ![t].status = "completed", ![t].completedAt = Some(Date)]
  ELSE runningAgents

ProbedStore(t) ==
  IF ProbeFailed(t) THEN dbUpdateAgentStatus(store, t, "completed", Some(0)) ELSE store

\* ---- getAgentStatus

getAgentStatusUnknown(t) ==
  /\ ~Known(t)
  /\ ret' = Ret("getStatus", t, "TaskNotFound")
  /\ justSpawned' = 0
  /\ UNCHANGED dashVars
  /\ UNCHANGED <<fleetVars, parserVars, markerVars, clientVars>>
  /\ UNCHANGED <<runningAgents, db, store, os, termSent, exitEv, errorEv, log,
                 fd, waiter, lastKill>>

\* block = false, or block = true on a task that is not running: one probe,
\* then the return.
getAgentStatus(t, block) ==
  /\ Known(t)
  /\ ~(block /\ runningAgents[t].status = "running")
  /\ runningAgents' = ProbedAgents(t)
  /\ store' = ProbedStore(t)
  /\ ret' = TaskRet("getStatus", t, runningAgents'[t], block, FALSE, justSpawned = t, 0)
  /\ justSpawned' = 0
  /\ UNCHANGED dashVars
  /\ UNCHANGED <<fleetVars, parserVars, markerVars, clientVars>>
  /\ UNCHANGED <<db, os, termSent, exitEv, errorEv, log, fd, waiter, lastKill>>

\* Variant: the loop allows one more poll interval than the caller asked for.
TimedOutLate(elapsed, timeoutMs) == elapsed > timeoutMs + pollInterval

\* Date.now() - startTime > timeoutMs
TimedOut(elapsed, timeoutMs) == elapsed > timeoutMs

\* Variant: getAgentStatus lets waitForAgent's exception reach the caller.
TimedOutThrows(t, task, fresh, waited) == Ret("getStatus", t, "Timeout")

\* catch (err) { return { task, timedOut: true } }
TimedOutReturn(t, task, fresh, waited) ==
  TaskRet("getStatus", t, task, TRUE, TRUE, fresh, waited)

\* One iteration of waitForAgent's loop, up to the call's return or its
\* next sleep.
waitForAgent(t, elapsed, timeoutMs, fresh) ==
  /\ runningAgents' = ProbedAgents(t)
  /\ store' = ProbedStore(t)
  /\ IF ~isAgentRunning(t)
     THEN /\ waiter' = IdleWaiter
          /\ ret' = TaskRet("getStatus", t, runningAgents'[t], TRUE, FALSE, fresh, elapsed)
     ELSE IF TimedOut(elapsed, timeoutMs)
          THEN /\ waiter' = IdleWaiter
               /\ ret' = TimedOutReturn(t, runningAgents'[t], fresh, elapsed)
          ELSE /\ waiter' = [pc |-> "sleeping", task |-> t, elapsed |-> elapsed,
                            timeout |-> timeoutMs]
               /\ ret' = Ret("sleep", t, "")
  /\ justSpawned' = 0
  /\ UNCHANGED dashVars
  /\ UNCHANGED <<fleetVars, parserVars, markerVars, clientVars>>
  /\ UNCHANGED <<db, os, termSent, exitEv, errorEv, log, fd, lastKill>>

\* block = true on a running task: the call enters waitForAgent.
getAgentStatusBlock(t, timeoutMs) ==
  /\ Known(t)
  /\ runningAgents[t].status = "running"
  /\ waiter.pc = "idle"
  /\ waitForAgent(t, 0, timeoutMs, justSpawned = t)

\* the setTimeout of a sleeping call fires, pollInterval later
Wake ==
  /\ waiter.pc = "sleeping"
  /\ waitForAgent(waiter.task, waiter.elapsed + pollInterval, waiter.timeout, FALSE)

\* ---- killAgent

\* Variant: the guard looks at the pid only.
killResultNoStatus(t) ==
  IF ~Known(t) THEN "TaskNotFound"
  ELSE IF runningAgents[t].pid = Null
       THEN "NotRunning"
       ELSE IF ProcessExists(t) THEN "ok" ELSE "ESRCH"

killResult(t) ==
  IF ~Known(t) THEN "TaskNotFound"
  ELSE IF runningAgents[t].status # "running" \/ runningAgents[t].pid = Null
       THEN "NotRunning"
       ELSE IF ProcessExists(t) THEN "ok" ELSE "ESRCH"

\* Variant: kill stamps the completion time and leaves the status.
KilledTaskNoStatus(task) == [task EXCEPT !.completedAt = Some(Date)]

KilledTask(task) == [task EXCEPT !.status = "failed", !.completedAt = Some(Date)]

killAgent(t) ==
  /\ IF killResult(t) = "ok"
     THEN /\ termSent' = [termSent EXCEPT ![t] = TRUE]
          /\ runningAgents' = [runningAgents EXCEPT ![t] = KilledTask(@)]
          /\ store' = dbUpdateAgentStatus(store, t, "failed", Some(KillSentinel))
     ELSE UNCHANGED <<termSent, runningAgents, store>>
  /\ ret' = [Ret("kill", t, killResult(t)) EXCEPT
               !.prev = IF lastKill.id = t THEN lastKill.res ELSE "none"]
  /\ lastKill' = [id |-> t, res |-> killResult(t)]
  /\ justSpawned' = 0
  /\ UNCHANGED dashVars
  /\ UNCHANGED <<fleetVars, parserVars, markerVars, clientVars>>
  /\ UNCHANGED <<db, os, exitEv, errorEv, log, fd, waiter>>

\* ---- get_agent_activity and search_agent_activity

\* Variant: the tools go to the log file without looking the task up.
activityResultNoLookup(t) == IF log[t] = <<>> THEN "NoOutputYet" ELSE "ok"

\* Variant: the log is read without looking whether the file exists.
activityResultNoExists(t) == IF ~Known(t) THEN "TaskNotFound" ELSE "ok"

\* task lookup, then existsSync(task.logFile); "ok": the log is read and parsed
activityResult(t) ==
  IF ~Known(t) THEN "TaskNotFound"
  ELSE IF log[t] = <<>> THEN "NoOutputYet" ELSE "ok"

getAgentActivity(t) ==
  /\ ret' = Ret("readActivity", t, activityResult(t))
  /\ justSpawned' = 0
  /\ UNCHANGED dashVars
  /\ UNCHANGED <<fleetVars, parserVars, markerVars, clientVars>>
  /\ UNCHANGED <<runningAgents, db, store, os, termSent, exitEv, errorEv, log,
                 fd, waiter, lastKill>>

\* validPattern = FALSE: new RegExp(pattern, "i") throws
searchAgentActivity(t, validPattern) ==
  /\ ret' = Ret("searchActivity", t,
                IF activityResult(t) = "ok" /\ ~validPattern
                THEN "InvalidRegex" ELSE activityResult(t))
  /\ justSpawned' = 0
  /\ UNCHANGED dashVars
  /\ UNCHANGED <<fleetVars, parserVars, markerVars, clientVars>>
  /\ UNCHANGED <<runningAgents, db, store, os, termSent, exitEv, errorEv, log,
                 fd, waiter, lastKill>>

\* ---- the log file of a task is removed from outside the program (the
\* case existsSync(task.logFile) is there for)
LogRemoved(t) ==
  /\ Known(t)
  /\ log[t] # <<>>
  /\ log' = [log EXCEPT ![t] = <<>>]
  /\ UNCHANGED dashVars
  /\ UNCHANGED <<fleetVars, parserVars, markerVars, clientVars>>
  /\ UNCHANGED <<runningAgents, db, store, os, termSent, exitEv, errorEv, fd,
                 waiter, ret, justSpawned, lastKill>>

\* ---- the Store stops or resumes accepting writes: while it does not, a
\* write throws inside the try of its db function and is logged
StoreFault ==
  /\ db' = ~db
  /\ justSpawned' = 0
  /\ UNCHANGED dashVars
  /\ UNCHANGED <<fleetVars, parserVars, markerVars, clientVars>>
  /\ UNCHANGED <<runningAgents, store, os, termSent, exitEv, errorEv, log, fd,
                 waiter, ret, lastKill>>

\* ---- GET /api/agents/:id/log (Dashboard Server, index.ts)

\* A block or line of a log file is one character of the file.  A line the
\* subprocess wrote holds text outside ASCII: its UTF-8 size is larger than
\* its length as a string; the Supervisor's own blocks are ASCII.
Bytes(unit) == IF unit \in LineKinds THEN 2 ELSE 1

\* statSync(logPath).size
RECURSIVE ByteSize(_)
ByteSize(content) ==
  IF content = <<>> THEN 0 ELSE Bytes(Head(content)) + ByteSize(Tail(content))

\* content.slice(start), start >= 0
Slice(content, start) == SubSeq(content, start + 1, Len(content))

\* offsets a client may send
Offsets == 0..(2 * MaxOut + 3)

\* the body of the 200 response when the file exists
logDelta(content, offset) ==
  IF offset >= ByteSize(content)
  THEN [content |-> <<>>, size |-> ByteSize(content), offset |-> offset]
  ELSE [content |-> Slice(content, offset), size |-> ByteSize(content),
        offset |-> offset]

\* req: the offset asked for; file: the file as it was when it was read
getLog(id, offset) ==
  /\ http' =
       IF id \notin DOMAIN store
       THEN [op |-> "log", id |-> id, req |-> offset, res |-> "NotFound"]
       ELSE IF log[id] = <<>>
            THEN [op |-> "log", id |-> id, req |-> offset, res |-> "ok",
                  file |-> log[id], body |-> [content |-> <<>>, size |-> 0, offset |-> 0]]
            ELSE [op |-> "log", id |-> id, req |-> offset, res |-> "ok",
                  file |-> log[id], body |-> logDelta(log[id], offset)]
  /\ UNCHANGED <<runningAgents, db, store, os, termSent, exitEv, errorEv, log, fd,
                 waiter, ret, justSpawned, lastKill, projects, sessions, sub>>
  /\ UNCHANGED <<fleetVars, parserVars, markerVars, clientVars>>

\* ---- the log panel polling GET /api/agents/:id/log (usePolling.ts,
\* useLogStream) and the endpoint serving it statement by statement

\* the user selects another task, or none (0): the effect on [agentId] resets
\* the text and the offset; a fetch in flight is not cancelled
selectAgent(a) ==
  /\ a # poller.agentId
  /\ poller' = [poller EXCEPT !.agentId = a, !.log = <<>>, !.offset = 0]
  /\ UNCHANGED <<supVars, dashVars, fleetVars, parserVars, markerVars>>

\* poll(): fetch(`/api/agents/${agentId}/log?offset=${offsetRef.current}`)
pollStart ==
  /\ poller.agentId # 0
  /\ poller.flight = Null
  /\ poller' = [poller EXCEPT !.flight =
                   Some([id |-> poller.agentId, req |-> poller.offset,
                         stage |-> "sent", size |-> 0, content |-> <<>>])]
  /\ UNCHANGED <<supVars, dashVars, fleetVars, parserVars, markerVars>>

\* the endpoint up to statSync: 404, the empty body for a missing file or
\* for an offset at or beyond the size, or the size is taken and the read of
\* the file is awaited
serveStat ==
  /\ poller.flight # Null
  /\ poller.flight[1].stage = "sent"
  /\ LET f == poller.flight[1]
     IN poller' = [poller EXCEPT !.flight =
          IF f.id \notin DOMAIN store \/ log[f.id] = <<>>
          THEN Some([f EXCEPT !.stage = "replied"])
          ELSE IF f.req >= ByteSize(log[f.id])
               THEN Some([f EXCEPT !.stage = "replied", !.size = ByteSize(log[f.id])])
               ELSE Some([f EXCEPT !.stage = "reading", !.size = ByteSize(log[f.id])])]
  /\ UNCHANGED <<supVars, dashVars, fleetVars, parserVars, markerVars>>

\* await file.text() resolves with the file as it is now;
\* content.slice(offset) and the size taken before are sent
serveRead ==
  /\ poller.flight # Null
  /\ poller.flight[1].stage = "reading"
  /\ poller' = [poller EXCEPT !.flight =
                   Some([poller.flight[1] EXCEPT
                           !.stage = "replied",
                           !.content = Slice(log[poller.flight[1].id],
                                             poller.flight[1].req)])]
  /\ UNCHANGED <<supVars, dashVars, fleetVars, parserVars, markerVars>>

\* the response arrives: if (data.content) the text grows by it and
\* offsetRef takes data.size, whichever task is selected by now
pollDone ==
  /\ poller.flight # Null
  /\ poller.flight[1].stage = "replied"
  /\ poller' = IF poller.flight[1].content # <<>>
               THEN [poller EXCEPT !.log = @ \o poller.flight[1].content,
                                   !.offset = poller.flight[1].size,
                                   !.flight = Null]
               ELSE [poller EXCEPT !.flight = Null]
  /\ UNCHANGED <<supVars, dashVars, fleetVars, parserVars, markerVars>>

\* ---- GET /api/events (Dashboard Server, index.ts)

\* cleanup(): the first call releases what exists when it is made
cleanup(s) ==
  IF s.isClosed THEN s
  ELSE [s EXCEPT !.isClosed = TRUE,
                 !.keepAlive = IF @ = "ticking" THEN "cleared" ELSE @,
                 !.fileWatcher = IF @ = "watching" THEN "closed" ELSE @]

\* send(event, data); delivered = FALSE: controller.enqueue throws
send(s, frame, delivered) ==
  IF s.isClosed THEN s
  ELSE IF delivered THEN [s EXCEPT !.frames = Append(@, frame)]
       ELSE cleanup([s EXCEPT !.failed = TRUE])

\* getAgent(agentId) && existsSync(agent.log_file)
hasLog(agentId) == agentId \in DOMAIN store /\ log[agentId] # <<>>

\* getAgents(): the task rows as a viewer sees them
agentsFrame ==
  [event |-> "agents", content |-> [id \in DOMAIN store |-> store[id].status],
   reset |-> FALSE]

\* what the watcher of a subscription looks at: one log file or LOGS_DIR
watched(agentId) == IF agentId # 0 THEN log[agentId] ELSE log

\* agentId = 0: no agent_id in the query, the subscription lists the agents.
\* gone, failed and seen are not in the code: the client has disconnected,
\* an enqueue has thrown, the files as the last watcher callback found them.
\* aborted: the request's signal fired before start() registered its listener,
\* which is then never called.
subscribe(agentId, delivered, aborted) ==
  /\ \/ sub.state = "none"
     \/ sub.state = "open" /\ sub.isClosed
  /\ LET s0 == [state |-> "open", agentId |-> agentId, isClosed |-> FALSE,
                keepAlive |-> "none", fileWatcher |-> "none", lastLogSize |-> 0,
                frames |-> <<>>, seen |-> watched(agentId),
                gone |-> aborted, failed |-> FALSE]
         s1 == IF agentId # 0
               THEN IF hasLog(agentId)
                    THEN send(s0, [event |-> "log", content |-> log[agentId],
                                   reset |-> TRUE], delivered)
                    ELSE s0
               ELSE send(s0, agentsFrame, delivered)
     IN sub' = IF agentId = 0 \/ hasLog(agentId)
               THEN [s1 EXCEPT !.fileWatcher = "watching", !.keepAlive = "ticking"]
               ELSE s1
  /\ UNCHANGED <<runningAgents, db, store, os, termSent, exitEv, errorEv, log, fd,
                 waiter, ret, justSpawned, lastKill, projects, sessions, http>>
  /\ UNCHANGED <<fleetVars, parserVars, markerVars, clientVars>>

\* start(controller) of an all-agents subscription up to the first frame:
\* getAgents and send.  The Supervisor is another process and runs on.
subscribeAll(delivered) ==
  /\ \/ sub.state = "none"
     \/ sub.state = "open" /\ sub.isClosed /\ sub.fileWatcher # "none"
  /\ sub' = send([state |-> "open", agentId |-> 0, isClosed |-> FALSE,
                  keepAlive |-> "none", fileWatcher |-> "none", lastLogSize |-> 0,
                  frames |-> <<>>, seen |-> watched(0),
                  gone |-> FALSE, failed |-> FALSE], agentsFrame, delivered)
  /\ UNCHANGED <<runningAgents, db, store, os, termSent, exitEv, errorEv, log, fd,
                 waiter, ret, justSpawned, lastKill, projects, sessions, http>>
  /\ UNCHANGED <<fleetVars, parserVars, markerVars, clientVars>>

\* the rest of start(controller): chokidar.watch(LOGS_DIR, ignoreInitial),
\* the handlers and the keep-alive timer; the files as they are now raise
\* no event
watchLogs ==
  /\ sub.state = "open"
  /\ sub.agentId = 0
  /\ sub.fileWatcher = "none"
  /\ sub' = [sub EXCEPT !.fileWatcher = "watching", !.keepAlive = "ticking",
                        !.seen = watched(0)]
  /\ UNCHANGED <<runningAgents, db, store, os, termSent, exitEv, errorEv, log, fd,
                 waiter, ret, justSpawned, lastKill, projects, sessions, http>>
  /\ UNCHANGED <<fleetVars, parserVars, markerVars, clientVars>>

\* fileWatcher.on("change"): a watched file was written to
onChange(delivered) ==
  /\ sub.state = "open"
  /\ sub.fileWatcher = "watching"
  /\ \E t \in Ids :
       IF sub.agentId # 0 THEN sub.seen # log[t] /\ t = sub.agentId
       ELSE sub.seen[t] # <<>> /\ sub.seen[t] # log[t]
  /\ sub' =
       IF sub.agentId # 0
       THEN IF hasLog(sub.agentId) /\ Len(log[sub.agentId]) > sub.lastLogSize
            THEN [send(sub, [event |-> "log",
                             content |-> Slice(log[sub.agentId], sub.lastLogSize),
                             reset |-> FALSE], delivered)
                    EXCEPT !.lastLogSize = Len(log[sub.agentId]),
                           !.seen = log[sub.agentId]]
            ELSE [sub EXCEPT !.seen = log[sub.agentId]]
       ELSE [send(sub, agentsFrame, delivered) EXCEPT
               !.seen = [t \in Ids |-> IF sub.seen[t] # <<>> THEN log[t] ELSE <<>>]]
  /\ UNCHANGED <<runningAgents, db, store, os, termSent, exitEv, errorEv, log, fd,
                 waiter, ret, justSpawned, lastKill, projects, sessions, http>>
  /\ UNCHANGED <<fleetVars, parserVars, markerVars, clientVars>>

\* fileWatcher.on("add"): a new file appeared in LOGS_DIR
onAdd(delivered) ==
  /\ sub.state = "open"
  /\ sub.fileWatcher = "watching"
  /\ sub.agentId = 0
  /\ \E t \in Ids : sub.seen[t] = <<>> /\ log[t] # <<>>
  /\ sub' = [send(sub, agentsFrame, delivered) EXCEPT
               !.seen = [t \in Ids |-> IF sub.seen[t] = <<>> THEN log[t] ELSE sub.seen[t]]]
  /\ UNCHANGED <<runningAgents, db, store, os, termSent, exitEv, errorEv, log, fd,
                 waiter, ret, justSpawned, lastKill, projects, sessions, http>>
  /\ UNCHANGED <<fleetVars, parserVars, markerVars, clientVars>>

\* the setInterval callback; a keep-alive comment is not kept in frames
keepAliveTick(delivered) ==
  /\ sub.state = "open"
  /\ sub.keepAlive = "ticking"
  /\ sub' = IF sub.isClosed \/ delivered THEN sub
            ELSE cleanup([sub EXCEPT !.failed = TRUE])
  /\ UNCHANGED <<runningAgents, db, store, os, termSent, exitEv, errorEv, log, fd,
                 waiter, ret, justSpawned, lastKill, projects, sessions, http>>
  /\ UNCHANGED <<fleetVars, parserVars, markerVars, clientVars>>

\* c.req.raw.signal "abort": the client went away
abort ==
  /\ sub.state = "open"
  /\ ~sub.gone
  /\ sub' = cleanup([sub EXCEPT !.gone = TRUE])
  /\ UNCHANGED <<runningAgents, db, store, os, termSent, exitEv, errorEv, log, fd,
                 waiter, ret, justSpawned, lastKill, projects, sessions, http>>
  /\ UNCHANGED <<fleetVars, parserVars, markerVars, clientVars>>

\* the stream's cancel()
cancel ==
  /\ sub.state = "open"
  /\ sub' = cleanup([sub EXCEPT !.gone = TRUE])
  /\ UNCHANGED <<runningAgents, db, store, os, termSent, exitEv, errorEv, log, fd,
                 waiter, ret, justSpawned, lastKill, projects, sessions, http>>
  /\ UNCHANGED <<fleetVars, parserVars, markerVars, clientVars>>

\* the text a client has after appending the frames of a log subscription
RECURSIVE framesText(_)
framesText(frames) ==
  IF frames = <<>> THEN <<>>
  ELSE frames[1].content \o framesText(Tail(frames))

\* useLogSSE's "log" listener applied to the frames in order: a reset frame
\* replaces the text, any other frame is appended to it
RECURSIVE clientLog(_)
clientLog(frames) ==
  IF frames = <<>> THEN <<>>
  ELSE LET last == frames[Len(frames)]
           prev == clientLog(SubSeq(frames, 1, Len(frames) - 1))
       IN IF last.reset THEN last.content ELSE prev \o last.content

\* ---- retention cleanup (Dashboard Server, db.ts)

\* CURRENT_TIMESTAMP: 'YYYY-MM-DD HH:MM:SS', as the started_at column holds it
sqliteText(ts) == <<ts.day, " ", ts.hour>>

\* Date.prototype.toISOString: 'YYYY-MM-DDTHH:MM:SS.sssZ'
isoText(ts) == <<ts.day, "T", ts.hour>>

\* code point of the separator between date and time
CharCode(c) == IF c = " " THEN 32 ELSE 84

\* SQLite's comparison of two TEXT values: byte by byte, left to right
TextLess(a, b) ==
  \/ a[1] < b[1]
  \/ /\ a[1] = b[1]
     /\ \/ CharCode(a[2]) < CharCode(b[2])
        \/ CharCode(a[2]) = CharCode(b[2]) /\ a[3] < b[3]

\* cutoff.setDate(cutoff.getDate() - daysToKeep)
Cutoff(now, days) == [day |-> now.day - days, hour |-> now.hour]

\* DELETE FROM agents WHERE started_at < ? AND status != 'running'
SweptRows(s, now, days) ==
  {id \in DOMAIN s :
     /\ TextLess(sqliteText(s[id].started_at), isoText(Cutoff(now, days)))
     /\ s[id].status # "running"}

cleanupOldData(now, days) ==
  /\ http.op = "none"
  /\ now.day >= days
  /\ \A id \in DOMAIN store : store[id].started_at.day <= now.day
  /\ store' = [id \in DOMAIN store \ SweptRows(store, now, days) |-> store[id]]
  /\ http' = [op |-> "cleanup", now |-> now, days |-> days,
              changes |-> Cardinality(SweptRows(store, now, days))]
  /\ UNCHANGED <<runningAgents, db, os, termSent, exitEv, errorEv, log, fd,
                 waiter, ret, justSpawned, lastKill, projects, sessions, sub>>
  /\ UNCHANGED <<fleetVars, parserVars, markerVars, clientVars>>

\* ---- starting the Dashboard Server (part_000: isDashboardRunning,
\* ensureDashboardRunning; dashboard/server/index.ts: start, cleanup)

\* a process with this id exists
Alive(d) == dash.procs[d].pc \in {"starting", "found", "serving"}

\* existsSync(DASHBOARD_PID_FILE) and process.kill(pid, 0) does not throw
isDashboardRunning == dash.pidFile # Null /\ Alive(dash.pidFile[1])

\* checkPortAvailable(port): no Dashboard Server listens on it
PortAvailable(port) ==
  \A d \in DashIds : ~(dash.procs[d].pc = "serving" /\ dash.procs[d].port = port)

\* ensureDashboardRunning of a Supervisor that starts: the Dashboard Server
\* process d is spawned unless one is recorded and alive
ensureDashboardRunning(s, d) ==
  /\ ~isDashboardRunning
  /\ dash.procs[d].pc = "none"
  /\ \A e \in DashIds : e < d => dash.procs[e].pc # "none"
  /\ dash' = [dash EXCEPT !.procs[d].pc = "starting", !.procs[d].by = s]
  /\ UNCHANGED <<supVars, dashVars, fleetVars, parserVars, clientVars>>

\* start() up to the end of findAvailablePort: the first free port
dashFindPort(d) ==
  /\ dash.procs[d].pc = "starting"
  /\ \E port \in Ports :
       /\ PortAvailable(port)
       /\ \A q \in Ports : q < port => ~PortAvailable(q)
       /\ dash' = [dash EXCEPT !.procs[d].pc = "found", !.procs[d].port = port]
  /\ UNCHANGED <<supVars, dashVars, fleetVars, parserVars, clientVars>>

\* start() from writeFileSync(PID_FILE) on: both markers are written, then
\* Bun.serve; when the port was taken meanwhile it throws and the catch of
\* start() exits the process, leaving the markers
dashServe(d) ==
  /\ dash.procs[d].pc = "found"
  /\ dash' = [dash EXCEPT !.pidFile = Some(d),
                          !.portFile = Some(dash.procs[d].port),
                          !.procs[d].pc = IF PortAvailable(dash.procs[d].port)
                                          THEN "serving" ELSE "dead"]
  /\ UNCHANGED <<supVars, dashVars, fleetVars, parserVars, clientVars>>

\* SIGINT or SIGTERM to a Dashboard Server: cleanup() removes the pid
\* marker when it holds the process's own id, and the port marker
dashSignal(d) ==
  /\ Alive(d)
  /\ dash' = [dash EXCEPT !.pidFile = IF @ = Some(d) THEN Null ELSE @,
                          !.portFile = Null,
                          !.procs[d].pc = "dead"]
  /\ UNCHANGED <<supVars, dashVars, fleetVars, parserVars, clientVars>>

Dashboards ==
  \/ \E s \in Sups, d \in DashIds : ensureDashboardRunning(s, d)
  \/ \E d \in DashIds : dashFindPort(d)
  \/ \E d \in DashIds : dashServe(d)
  \/ \E d \in DashIds : dashSignal(d)

\* ---- parseLog (part_000 and web/src/utils/logParser.ts)

\* Texts of a transcript: "R" is what the final result says.
Texts == {"R", "A"}

\* Lines of a raw log after trim().  sep is "---"; plain is a line that
\* is not JSON (a header or footer field, a line of the task description);
\* the others are stream-json records.
Sep == [kind |-> "sep"]
Plain == [kind |-> "plain"]
SystemInit == [kind |-> "system"]
BlockStart == [kind |-> "content_block_start", name |-> "Bash"]
TextBlock(t) == [type |-> "text", text |-> t]
ToolUse == [type |-> "tool_use", text |-> "Bash"]
Assistant(blocks) == [kind |-> "assistant", content |-> blocks]
ToolResult(t) == [kind |-> "user", text |-> t]
Result(t) == [kind |-> "result", text |-> t]

AssistantMessages ==
  {Assistant(<<TextBlock("R")>>), Assistant(<<TextBlock("A")>>),
   Assistant(<<ToolUse>>), Assistant(<<TextBlock(""), TextBlock("R")>>),
   Assistant(<<ToolUse, TextBlock("R")>>),
   Assistant(<<TextBlock("A"), TextBlock("R")>>)}

\* what a subprocess writes to its log
Records ==
  {Plain, SystemInit, BlockStart} \cup AssistantMessages
    \cup {ToolResult(t) : t \in Texts} \cup {Result(t) : t \in Texts \cup {""}}

\* The header spawnAgent writes: "---", the fields, "---".  The task
\* description is one of the fields and is written as the caller gave it;
\* in the second header it has a line "---" of its own.
Headers == {<<Sep, Plain, Sep>>, <<Sep, Plain, Sep, Plain, Sep>>}

\* The footer of the exit handler, absent while the task runs.
Footers == {<<>>, <<Sep, Plain, Sep>>}

Bodies == UNION {[1..n -> Records] : n \in 0..MaxLines}

Transcripts == {h \o b \o f : h \in Headers, b \in Bodies, f \in Footers}

\* First pass: the text of the last result record that has one
RECURSIVE FirstPass(_, _)
FirstPass(lines, finalResultText) ==
  IF lines = <<>> THEN finalResultText
  ELSE FirstPass(Tail(lines),
                 IF Head(lines).kind = "result" /\ Head(lines).text # ""
                 THEN Some(Head(lines).text) ELSE finalResultText)

\* the loop over the blocks of an assistant message: the first block that
\* is a text with content or a tool use decides
RECURSIVE AssistantEntry(_, _)
AssistantEntry(blocks, finalResultText) ==
  IF blocks = <<>> THEN Null
  ELSE LET block == Head(blocks)
       IN IF block.type = "text" /\ block.text # ""
          THEN IF finalResultText # Null /\ Some(block.text) = finalResultText
               THEN Null
               ELSE Some([type |-> "text", content |-> block.text])
          ELSE IF block.type = "tool_use"
               THEN Some([type |-> "tool_call", content |-> block.text])
               ELSE AssistantEntry(Tail(blocks), finalResultText)

parseJsonEntry(data, finalResultText) ==
  IF data.kind = "system" THEN Null
  ELSE IF data.kind = "content_block_start"
       THEN Some([type |-> "tool_call", content |-> data.name])
  ELSE IF data.kind = "assistant"
       THEN AssistantEntry(data.content, finalResultText)
  ELSE IF data.kind = "user"
       THEN Some([type |-> "tool_result", content |-> data.text])
  ELSE IF data.kind = "result"
       THEN Some([type |-> "result",
                  content |-> IF data.text # "" THEN data.text ELSE "Task completed"])
  ELSE Null

\* Second pass; the value is the entries and the final inHeader
RECURSIVE SecondPass(_, _, _, _)
SecondPass(lines, inHeader, finalResultText, entries) ==
  IF lines = <<>> THEN [entries |-> entries, inHeader |-> inHeader]
  ELSE LET line == Head(lines)
       IN IF line.kind = "sep"
          THEN SecondPass(Tail(lines), ~inHeader, finalResultText, entries)
          ELSE IF inHeader \/ line.kind = "plain"
               THEN SecondPass(Tail(lines), inHeader, finalResultText, entries)
               ELSE SecondPass(Tail(lines), inHeader, finalResultText,
                               entries \o parseJsonEntry(line, finalResultText))

\* the events of the stream-json records among the lines, one parseJsonEntry
\* call per record, in file order
RECURSIVE RecordEvents(_, _)
RecordEvents(lines, finalResultText) ==
  IF lines = <<>> THEN <<>>
  ELSE IF Head(lines).kind \in {"sep", "plain"}
       THEN RecordEvents(Tail(lines), finalResultText)
       ELSE parseJsonEntry(Head(lines), finalResultText)
              \o RecordEvents(Tail(lines), finalResultText)

\* Variant: inHeader is kept between calls.
inHeaderKept(last) == last

\* let inHeader = false: a call starts outside a header whatever the last
\* call left
inHeaderAtStart(last) == FALSE

parseLog(rawLog, last) ==
  SecondPass(rawLog, inHeaderAtStart(last), FirstPass(rawLog, Null), <<>>)

\* a viewer opens a task's log
openLog(rawLog) ==
  /\ ~parser.opened
  /\ parser' = [parser EXCEPT !.raw = rawLog, !.opened = TRUE]
  /\ UNCHANGED <<supVars, dashVars, fleetVars, markerVars, clientVars>>

\* the viewer's log is parsed: once more, or for the first time
viewLog ==
  /\ parser.opened
  /\ parser.calls < MaxCalls
  /\ LET r == parseLog(parser.raw, parser.inHeader)
     IN parser' = [parser EXCEPT !.entries = Some(r.entries),
                                 !.first = IF @ = Null THEN Some(r.entries) ELSE @,
                                 !.inHeader = r.inHeader,
                                 !.calls = @ + 1]
  /\ UNCHANGED <<supVars, dashVars, fleetVars, markerVars, clientVars>>

\* another log is parsed in between
viewOther(rawLog) ==
  /\ parser.opened
  /\ parser.calls < MaxCalls
  /\ parser' = [parser EXCEPT !.inHeader = parseLog(rawLog, parser.inHeader).inHeader,
                               !.calls = @ + 1]
  /\ UNCHANGED <<supVars, dashVars, fleetVars, markerVars, clientVars>>

\* logs of other tasks: one ends inside what the parser takes for a header
OtherLogs == {<<Sep, Plain, Sep>>, <<Sep, Plain, Sep, Plain, Sep>>}

Viewing ==
  \/ \E r \in Transcripts : openLog(r)
  \/ viewLog
  \/ \E r \in OtherLogs : viewOther(r)

\* ---- several Supervisors on one Store (part_000: main, initDashboardDB,
\* dbInsertAgent, dbEndSession, cleanup)

\* A write statement of process s finds the write lock taken by another
\* process.  No busy timeout is set on any connection, so the statement
\* throws at once.
Busy(s) == shared.writer \notin {0, s}

\* id of the project row with this name, 0 when there is none
ProjectId(name) ==
  IF \E i \in DOMAIN shared.projects : shared.projects[i] = name
  THEN CHOOSE i \in DOMAIN shared.projects : shared.projects[i] = name
  ELSE 0

\* randomUUID().slice(0, 8): ids never collide in the model
NewTaskId(s) == <<s, Cardinality(peers[s].runningAgents) + 1>>

\* initDashboardDB up to its SELECT of the project row
peerSelect(s, name) ==
  /\ peers[s].pc = "down"
  /\ peers' = [peers EXCEPT ![s] = [@ EXCEPT !.pc = "selected", !.db = TRUE,
                                               !.name = name,
                                               !.existing = ProjectId(name)]]
  /\ UNCHANGED <<shared, supVars, dashVars, parserVars, markerVars, clientVars>>

\* initDashboardDB from "if (existing)" to its end: the project row is
\* refreshed or inserted, then the session row is inserted.  A statement
\* that throws (lock taken, name no longer unique) ends in the catch, which
\* sets db to null.
peerRegister(s) ==
  /\ peers[s].pc = "selected"
  /\ LET p == peers[s]
         thrown == \/ Busy(s)
                   \/ p.existing = 0 /\ ProjectId(p.name) # 0
         pid == IF p.existing # 0 THEN p.existing ELSE Len(shared.projects) + 1
     IN IF thrown
        THEN /\ peers' = [peers EXCEPT ![s] = [@ EXCEPT !.pc = "up", !.db = FALSE]]
             /\ UNCHANGED shared
        ELSE /\ peers' = [peers EXCEPT ![s] = [@ EXCEPT !.pc = "up", !.projectId = pid,
                                                         !.sessionId = s]]
             /\ shared' = [shared EXCEPT
                   !.projects = IF p.existing # 0 THEN @ ELSE Append(@, p.name),
                   !.sessions = (s :> [project_id |-> pid, status |-> "active",
                                       ended_at |-> Null]) @@ @]
  /\ UNCHANGED <<supVars, dashVars, parserVars, markerVars, clientVars>>

\* spawnAgent of process s up to the INSERT of dbInsertAgent.  Without a
\* Store, or when the INSERT throws, the catch logs and spawnAgent goes on
\* to runningAgents.set and returns the task.
peerSpawn(s) ==
  /\ peers[s].pc = "up"
  /\ Cardinality(peers[s].runningAgents) < MaxTasks
  /\ IF peers[s].db /\ peers[s].projectId # 0 /\ ~Busy(s)
     THEN /\ peers' = [peers EXCEPT ![s] = [@ EXCEPT !.pc = "inserting",
                                                      !.taskId = NewTaskId(s)]]
          /\ shared' = [shared EXCEPT !.writer = s]
     ELSE /\ peers' = [peers EXCEPT ![s] =
                         [@ EXCEPT !.runningAgents = @ \cup {NewTaskId(s)}]]
          /\ UNCHANGED shared
  /\ UNCHANGED <<supVars, dashVars, parserVars, markerVars, clientVars>>

\* the INSERT commits; spawnAgent registers the task and returns
peerInserted(s) ==
  /\ peers[s].pc = "inserting"
  /\ shared' = [shared EXCEPT
        !.agents = (peers[s].taskId :> [project_id |-> peers[s].projectId,
                                        session_id |-> peers[s].sessionId,
                                        status |-> "running"]) @@ @,
        !.writer = 0]
  /\ peers' = [peers EXCEPT ![s] = [@ EXCEPT !.pc = "up", !.taskId = <<>>,
                                               !.runningAgents = @ \cup {peers[s].taskId}]]
  /\ UNCHANGED <<supVars, dashVars, parserVars, markerVars, clientVars>>

\* Variant: the status is set and the end time is left as it was.
dbEndSessionNoTime(s) ==
  IF ~peers[s].db \/ peers[s].sessionId = 0 \/ Busy(s)
  THEN shared.sessions
  ELSE [shared.sessions EXCEPT ![peers[s].sessionId] = [@ EXCEPT !.status = "ended"]]

\* dbEndSession of process s: the sessions table after it
dbEndSession(s) ==
  IF ~peers[s].db \/ peers[s].sessionId = 0 \/ Busy(s)
  THEN shared.sessions
  ELSE [shared.sessions EXCEPT ![peers[s].sessionId] =
          [@ EXCEPT !.status = "ended", !.ended_at = Some(Date)]]

\* SIGINT or SIGTERM: the handler calls cleanup() and then process.exit(0)
peerSignal(s) ==
  /\ peers[s].pc = "up"
  /\ shared' = [shared EXCEPT !.sessions = dbEndSession(s)]
  /\ peers' = [peers EXCEPT ![s] = [@ EXCEPT !.pc = "exiting"]]
  /\ UNCHANGED <<supVars, dashVars, parserVars, markerVars, clientVars>>

\* the process's "exit" event: cleanup() runs, after a signal for the second
\* time, and the process is gone
peerExit(s) ==
  /\ peers[s].pc \in {"up", "exiting"}
  /\ shared' = [shared EXCEPT !.sessions = dbEndSession(s)]
  /\ peers' = [peers EXCEPT ![s] = [@ EXCEPT !.pc = "exited"]]
  /\ UNCHANGED <<supVars, dashVars, parserVars, markerVars, clientVars>>

\* the exit handler of a task of process s, which runs while s does: the
\* subprocess ended with code 0 and the row, if it was written, is updated
peerTaskExit(s, id) ==
  /\ peers[s].pc = "up"
  /\ id \in peers[s].runningAgents
  /\ id \in DOMAIN shared.agents => shared.agents[id].status = "running"
  /\ shared' = IF peers[s].db /\ ~Busy(s) /\ id \in DOMAIN shared.agents
               THEN [shared EXCEPT !.agents[id].status = ExitStatus(Some(0))]
               ELSE shared
  /\ UNCHANGED <<peers, supVars, dashVars, parserVars, markerVars, clientVars>>

Fleet ==
  \/ \E s \in Sups, n \in ProjectNames : peerSelect(s, n)
  \/ \E s \in Sups : peerRegister(s)
  \/ \E s \in Sups : peerSpawn(s)
  \/ \E s \in Sups : peerInserted(s)
  \/ \E s \in Sups : peerSignal(s)
  \/ \E s \in Sups : peerExit(s)

\* ---- the specification

\* spawn, the subprocess, the handlers, non-blocking status queries and kill
Lifecycle ==
  \/ \E a \in Roles : spawnAgentNotFound(a)
  \/ \E a \in Roles, m \in Modes, l \in BOOLEAN : spawnAgent(a, m, l)
  \/ \E t \in Ids, k \in LineKinds : ProcWrite(t, k)
  \/ \E t \in Ids, c \in ExitCodes : ProcExit(t, c)
  \/ \E t \in Ids : ExitHandler(t)
  \/ \E t \in Ids : ErrorHandler(t)
  \/ \E t \in Ids : getAgentStatusUnknown(t)
  \/ \E t \in Ids, b \in BOOLEAN : getAgentStatus(t, b)
  \/ \E t \in Ids : killAgent(t)
  \/ \E t \in Ids : getAgentActivity(t)
  \/ \E t \in Ids, v \in BOOLEAN : searchAgentActivity(t, v)

Blocking ==
  \/ \E t \in Ids, ms \in Timeouts : getAgentStatusBlock(t, ms)
  \/ Wake

Next == Lifecycle \/ Blocking

\* Every operation of the Supervisor.
Spec == Init /\ [][Next]_vars

\* The operations that return at once: no blocking call is made.
SpecNow == Init /\ [][Lifecycle]_vars

\* Tasks are spawned and end, their logs are read and searched, and a log
\* file may be missing when it is asked for.
Reading ==
  \/ \E a \in Roles, m \in Modes, l \in BOOLEAN : spawnAgent(a, m, l)
  \/ \E t \in Ids, c \in ExitCodes : ProcExit(t, c)
  \/ \E t \in Ids : ExitHandler(t)
  \/ \E t \in Ids : ErrorHandler(t)
  \/ \E t \in Ids : LogRemoved(t)
  \/ \E t \in Ids : getAgentActivity(t)
  \/ \E t \in Ids, v \in BOOLEAN : searchAgentActivity(t, v)

SpecRead == Init /\ [][Reading]_vars

\* Tasks run and exit; the exit handler's statements are steps of their own,
\* between which other processes go on and the Store may start or stop
\* refusing writes.  The Supervisor itself runs nothing else meanwhile.
Exiting ==
  \/ \E a \in Roles, m \in Modes, l \in BOOLEAN : HandlerIdle /\ spawnAgent(a, m, l)
  \/ \E t \in Ids, k \in LineKinds : ProcWrite(t, k)
  \/ \E t \in Ids, c \in ExitCodes : ProcExit(t, c)
  \/ \E t \in Ids : ExitStatusWrite(t)
  \/ \E t \in Ids : ExitTokensWrite(t)
  \/ StoreFault

SpecExit == Init /\ [][Exiting]_vars

\* Everything that writes a task's status: to the record in memory and, the
\* Store being open, to the row.
Mirroring ==
  \/ \E a \in Roles, m \in Modes, l \in BOOLEAN : spawnAgent(a, m, l)
  \/ \E t \in Ids, c \in ExitCodes : ProcExit(t, c)
  \/ \E t \in Ids : ExitHandler(t)
  \/ \E t \in Ids : ErrorHandler(t)
  \/ \E t \in Ids : killAgent(t)
  \/ \E t \in Ids : getAgentStatus(t, FALSE)

\* The events of a child process in every combination the runtime's
\* interface allows: error alone, exit alone, error and then exit.
Handlers ==
  \/ \E a \in Roles, m \in Modes, l \in BOOLEAN : spawnAgent(a, m, l)
  \/ \E t \in Ids, k \in LineKinds : ProcWrite(t, k)
  \/ \E t \in Ids : ProcError(t)
  \/ \E t \in Ids, c \in ExitCodes : ProcExit(t, c)
  \/ \E t \in Ids : ExitHandler(t)
  \/ \E t \in Ids : ErrorHandler(t)
  \/ \E t \in Ids : killAgent(t)

SpecHandlers == Init /\ [][Handlers]_vars

\* The operations that write to the Store, against a Store whose writes may
\* fail; the subprocess writes nothing but exits.
Faulty ==
  \/ \E a \in Roles, m \in Modes, l \in BOOLEAN : spawnAgent(a, m, l)
  \/ \E t \in Ids, c \in ExitCodes : ProcExit(t, c)
  \/ \E t \in Ids : ExitHandler(t)
  \/ \E t \in Ids : ErrorHandler(t)
  \/ \E t \in Ids, b \in BOOLEAN : getAgentStatus(t, b)
  \/ \E t \in Ids : killAgent(t)
  \/ StoreFault

SpecStore == Init /\ [][Faulty]_vars

\* The Dashboard Server starts on a Store that earlier Supervisors filled.
StoredRows ==
  {[status |-> st, pid |-> Null,
    completed_at |-> IF st = "running" THEN Null ELSE Some(Date),
    exit_code |-> IF st = "running" THEN Null ELSE Some(0),
    input_tokens |-> 0, output_tokens |-> 0, started_at |-> ts] :
     st \in {"running", "completed", "failed"}, ts \in Times}

InitSweep ==
  /\ runningAgents = <<>>
  /\ db = TRUE
  /\ store \in [1..MaxRows -> StoredRows]
  /\ os = [t \in Ids |-> "none"]
  /\ termSent = [t \in Ids |-> FALSE]
  /\ exitEv = [t \in Ids |-> <<>>]
  /\ errorEv = [t \in Ids |-> FALSE]
  /\ log = [t \in Ids |-> <<>>]
  /\ fd = [t \in Ids |-> "none"]
  /\ waiter = IdleWaiter
  /\ ret = Ret("init", 0, "")
  /\ justSpawned = 0
  /\ lastKill = [id |-> 0, res |-> "none"]
  /\ projects = (1 :> [name |-> "project"])
  /\ sessions \in [{1} -> [status : {"active", "ended"}, ended_at : {Null}]]
  /\ http = NoResponse
  /\ sub = NoSubscription
  /\ peers = [s \in Sups |-> PeerDown]
  /\ shared = EmptyStore
  /\ parser = NoLog
  /\ dash = NoDashboard
  /\ poller = NoPoller

Sweep == \E now \in Times : cleanupOldData(now, daysToKeep)

SpecSweep == InitSweep /\ [][Sweep]_vars

\* Blocking status queries against an open database.
Waiting ==
  \/ \E a \in Roles, m \in Modes, l \in BOOLEAN : spawnAgent(a, m, l)
  \/ \E t \in Ids, k \in LineKinds : ProcWrite(t, k)
  \/ \E t \in Ids, c \in ExitCodes : ProcExit(t, c)
  \/ \E t \in Ids : ExitHandler(t)
  \/ \E t \in Ids : ErrorHandler(t)
  \/ \E t \in Ids, b \in BOOLEAN : getAgentStatus(t, b)
  \/ \E t \in Ids : killAgent(t)
  \/ Blocking

\* initDashboardDB returned true
InitOpen == Init /\ db = TRUE

\* Supervisors start and each makes sure a Dashboard Server runs.
SpecDash == InitOpen /\ [][Dashboards]_vars

\* A viewer opens a log and has it parsed several times.
SpecParse == InitOpen /\ [][Viewing]_vars

\* Two Supervisors start, spawn and shut down against one Store.
SpecFleet == InitOpen /\ [][Fleet]_vars

\* The same, with the tasks ending while their Supervisor is there to see it.
FleetTasksEnd ==
  \/ \E s \in Sups, n \in ProjectNames : peerSelect(s, n)
  \/ \E s \in Sups : peerRegister(s)
  \/ \E s \in Sups : peerSpawn(s)
  \/ \E s \in Sups : peerInserted(s)
  \/ \E s \in Sups, i \in 1..MaxTasks : peerTaskExit(s, <<s, i>>)
  \/ \E s \in Sups : peerSignal(s)
  \/ \E s \in Sups : peerExit(s)

SpecShutdown == InitOpen /\ [][FleetTasksEnd]_vars

SpecWait == InitOpen /\ [][Waiting]_vars

SpecMirror == InitOpen /\ [][Mirroring]_vars

\* What decides when a blocking call returns: everything in Waiting except
\* the subprocess's writes to its log, which no poll reads.
Polling ==
  \/ \E a \in Roles, m \in Modes, l \in BOOLEAN : spawnAgent(a, m, l)
  \/ \E t \in Ids, c \in ExitCodes : ProcExit(t, c)
  \/ \E t \in Ids : ExitHandler(t)
  \/ \E t \in Ids : ErrorHandler(t)
  \/ \E t \in Ids, b \in BOOLEAN : getAgentStatus(t, b)
  \/ \E t \in Ids : killAgent(t)
  \/ Blocking

\* A sleeping call's timer fires.
SpecLive == InitOpen /\ [][Polling]_vars /\ WF_vars(Wake)

\* A client polls the log of a task while the Supervisor runs it.
Tailing ==
  \/ \E a \in Roles, m \in Modes, l \in BOOLEAN : spawnAgent(a, m, l)
  \/ \E t \in Ids, k \in LineKinds : ProcWrite(t, k)
  \/ \E t \in Ids, c \in ExitCodes : ProcExit(t, c)
  \/ \E t \in Ids : ExitHandler(t)
  \/ \E t \in Ids : ErrorHandler(t)
  \/ \E t \in Ids, o \in Offsets : getLog(t, o)

SpecTail == InitOpen /\ [][Tailing]_vars

\* The log panel polls while the Supervisor runs tasks.
Polls ==
  \/ \E a \in Roles, m \in Modes, l \in BOOLEAN : spawnAgent(a, m, l)
  \/ \E t \in Ids, k \in LineKinds : ProcWrite(t, k)
  \/ \E t \in Ids, c \in ExitCodes : ProcExit(t, c)
  \/ \E t \in Ids : ExitHandler(t)
  \/ \E t \in Ids : ErrorHandler(t)
  \/ \E a \in {0} \cup Ids : selectAgent(a)
  \/ pollStart
  \/ serveStat
  \/ serveRead
  \/ pollDone

SpecPoll == InitOpen /\ [][Polls]_vars

\* Viewers subscribe to /api/events while the Supervisor runs tasks.
Streaming ==
  \/ \E a \in Roles, m \in Modes, l \in BOOLEAN : spawnAgent(a, m, l)
  \/ \E t \in Ids, k \in LineKinds : ProcWrite(t, k)
  \/ \E t \in Ids, c \in ExitCodes : ProcExit(t, c)
  \/ \E t \in Ids : ExitHandler(t)
  \/ \E t \in Ids : ErrorHandler(t)
  \/ \E a \in {0} \cup Ids, d \in BOOLEAN, g \in BOOLEAN : subscribe(a, d, g)
  \/ \E d \in BOOLEAN : onChange(d)
  \/ \E d \in BOOLEAN : onAdd(d)
  \/ \E d \in BOOLEAN : keepAliveTick(d)
  \/ abort
  \/ cancel

SpecEvents == InitOpen /\ [][Streaming]_vars

\* A viewer lists the agents while the Supervisor runs, kills and probes
\* tasks.  The Dashboard Server and the Supervisor are two processes: the
\* subscription's start() is two steps here.
Viewers ==
  \/ \E a \in Roles, m \in Modes, l \in BOOLEAN : spawnAgent(a, m, l)
  \/ \E t \in Ids, k \in LineKinds : ProcWrite(t, k)
  \/ \E t \in Ids, c \in ExitCodes : ProcExit(t, c)
  \/ \E t \in Ids : ExitHandler(t)
  \/ \E t \in Ids : ErrorHandler(t)
  \/ \E t \in Ids : killAgent(t)
  \/ \E t \in Ids : getAgentStatus(t, FALSE)
  \/ \E d \in BOOLEAN : subscribeAll(d)
  \/ watchLogs
  \/ \E d \in BOOLEAN : onChange(d)
  \/ \E d \in BOOLEAN : onAdd(d)
  \/ sub.state = "open" /\ sub.fileWatcher # "none" /\ abort

\* Every callback that is due runs: the watcher's, the Supervisor's exit and
\* error handlers, the end of start(); every subprocess ends.
SpecViewers ==
  /\ InitOpen
  /\ [][Viewers]_vars
  /\ WF_vars(watchLogs)
  /\ WF_vars(\E d \in BOOLEAN : onChange(d))
  /\ WF_vars(\E d \in BOOLEAN : onAdd(d))
  /\ WF_vars(\E t \in Ids : ExitHandler(t))
  /\ WF_vars(\E t \in Ids : ErrorHandler(t))
  /\ WF_vars(\E t \in Ids, c \in ExitCodes : ProcExit(t, c))

\* A viewer lists the agents while tasks end; the exit handler's Store
\* update and its footer are steps of their own and the Store may refuse
\* writes.  The log files change by the Supervisor's header and footer only.
FooterFrames ==
  \/ \E a \in Roles, m \in Modes, l \in BOOLEAN : HandlerIdle /\ spawnAgent(a, m, l)
  \/ \E t \in Ids, c \in ExitCodes : ProcExit(t, c)
  \/ \E t \in Ids : ExitStatusWrite(t)
  \/ \E t \in Ids : ExitTokensWrite(t)
  \/ StoreFault
  \/ \E d \in BOOLEAN : subscribeAll(d)
  \/ watchLogs
  \/ \E d \in BOOLEAN : onChange(d)
  \/ \E d \in BOOLEAN : onAdd(d)

SpecFooter == InitOpen /\ [][FooterFrames]_vars

\* ---- properties

\* C1: for every task, the status in the in-memory record and in the Store
\* row changes only from running to completed or from running to failed;
\* once completed or failed it never changes again.  (The exit handler
\* overwrites a status that kill or a failed probe has already settled.)
StatusOnlyLeavesRunning ==
  [][\A t \in DOMAIN runningAgents :
       /\ runningAgents'[t].status # runningAgents[t].status
            => /\ runningAgents[t].status = "running"
               /\ runningAgents'[t].status \in {"completed", "failed"}
       /\ (t \in DOMAIN store /\ store'[t].status # store[t].status)
            => /\ store[t].status = "running"
               /\ store'[t].status \in {"completed", "failed"}]_vars

FreshStatusRunningWithPid ==
  (ret.op = "getStatus" /\ ~ret.block /\ ret.fresh) =>
     (ret.status = "running" /\ ret.pid # Null)

\* C3: when the OS started the subprocess, a non-blocking getStatus issued
\* immediately after the spawn returns status running and a non-null pid.
LaunchedFreshStatusRunningWithPid ==
  (ret.op = "getStatus" /\ ~ret.block /\ ret.fresh /\ os[ret.id] # "none") =>
     (ret.res = "ok" /\ ret.status = "running" /\ ret.pid # Null)

\* C3 happens: the status query right after a successful launch
LaunchedFreshStatusSeen ==
  /\ ret.op = "getStatus" /\ ~ret.block /\ ret.fresh
  /\ os[ret.id] = "live"
  /\ ret.status = "running" /\ ret.pid = Some(ret.id)

\* C4 as stated: for every task id, the second of two kill calls for it
\* returns NotRunning, whatever the first returned.
SecondKillNotRunning ==
  (ret.op = "kill" /\ ret.prev # "none") => ret.res = "NotRunning"

\* C4: when a kill of a task succeeded or returned NotRunning, the next
\* kill of that task returns NotRunning, whatever happened in between.
SecondKillNotRunningAfterKnown ==
  (ret.op = "kill" /\ ret.prev \in {"ok", "NotRunning"}) => ret.res = "NotRunning"

\* C4 happens: a kill that follows a successful kill
SecondKillSeen ==
  /\ ret.op = "kill" /\ ret.prev = "ok" /\ ret.res = "NotRunning"
  /\ termSent[ret.id]

TimeoutReturnsRunning ==
  /\ (ret.op = "getStatus" /\ Known(ret.id)) => ret.res = "ok"
  /\ (ret.op = "getStatus" /\ ret.timedOut) =>
        /\ ret.block
        /\ ret.status = "running"
        /\ runningAgents[ret.id].status = "running"
        /\ runningAgents[ret.id].completedAt = Null
        /\ ret.id \in DOMAIN store => store[ret.id].status = "running"

\* C6 happens: a blocking call slept past its timeout and returned
TimeoutReturnSeen ==
  /\ ret.op = "getStatus" /\ ret.block /\ ret.timedOut /\ ret.res = "ok"
  /\ ret.waited > MaxTimeout
  /\ ret.status = "running"

\* C7: whenever a blocking getStatus returns a result without timedOut, the
\* returned status is completed or failed.  (A task whose launch failed has
\* no pid: until its error event is handled a blocking call returns it at
\* once, still running.)
BlockingReturnsTerminal ==
  (ret.op = "getStatus" /\ ret.block /\ ret.res = "ok" /\ ~ret.timedOut) =>
     ret.status \in {"completed", "failed"}

\* C8: the step in which a blocking getStatus times out, and every step in
\* which it goes to sleep, sends no signal and leaves the in-memory records,
\* the Store rows, the log files and the processes as they were; after a
\* timeout the subprocess is still alive.
TimeoutChangesNothing ==
  [][/\ (waiter' # waiter /\ waiter'.pc = "sleeping")
          => UNCHANGED <<runningAgents, store, log, fd, os, termSent>>
     /\ (waiter.pc = "sleeping" /\ waiter'.pc = "idle" /\ ret'.timedOut)
          => /\ UNCHANGED <<runningAgents, store, log, fd, os, termSent>>
             /\ os'[waiter.task] = "live"]_vars

\* C8 happens: after a timeout the process is alive, unsignalled, and its
\* log holds the header and what the process wrote
TimeoutChangesNothingSeen ==
  /\ ret.op = "getStatus" /\ ret.timedOut
  /\ os[ret.id] = "live" /\ ~termSent[ret.id]
  /\ fd[ret.id] = "open"
  /\ log[ret.id] = <<"header", "usage">>

\* C9: every blocking getStatus that went to sleep eventually returns; a
\* poll that finds the status no longer running returns it at once, without
\* timedOut, and a poll made more than timeoutMs after the call began
\* returns.
BlockingReturns ==
  /\ (waiter.pc = "sleeping") ~> (waiter.pc = "idle")
  /\ [][(waiter.pc = "sleeping" /\ waiter' # waiter) =>
          /\ runningAgents'[waiter.task].status # "running"
               => /\ waiter'.pc = "idle"
                  /\ ret'.op = "getStatus" /\ ~ret'.timedOut
                  /\ ret'.status = runningAgents'[waiter.task].status
          /\ waiter.elapsed + pollInterval > waiter.timeout
               => (waiter'.pc = "idle" /\ ret'.op = "getStatus")]_vars

\* C9 happens: a call that slept returned because kill had failed the task
BlockingReturnSeen ==
  /\ ret.op = "getStatus" /\ ret.block /\ ~ret.timedOut
  /\ ret.waited > 0
  /\ ret.status = "failed"
  /\ termSent[ret.id]
  /\ waiter.pc = "idle"

NotFoundNoEffect ==
  [][(ret' # ret /\ ret'.op = "spawn") =>
       /\ ret'.agent = "ghost" => ret'.res = "AgentNotFound"
       /\ ret'.res = "AgentNotFound" =>
            /\ ret'.roles = {"database", "blank"}
            /\ UNCHANGED <<runningAgents, store, log, fd, os, termSent,
                           exitEv, errorEv>>]_vars

\* C12 happens: a role without a file was asked for while a task exists
NotFoundSeen ==
  /\ ret.op = "spawn" /\ ret.res = "AgentNotFound" /\ ret.agent = "ghost"
  /\ DOMAIN runningAgents = {1}
  /\ DOMAIN log[1] = {1}

\* C13: spawn returns AgentNotFound if and only if the role file of the
\* given name is absent.  (A role file that exists and is empty is refused
\* too: the test is !agentPrompt.)
NotFoundOnlyWhenAbsent ==
  ret.op = "spawn" =>
    (ret.res = "AgentNotFound" <=> ret.agent \notin {"database", "blank"})

\* C14: what an operation returns and what it does to the in-memory records,
\* the log and the descriptor is fixed by the in-memory state alone, whether
\* the Store takes writes or not: a Store failure never shows in a result
\* and the exit and error handlers always run to their end.
StoreNeverDecides ==
  [][/\ db' # db => UNCHANGED <<runningAgents, ret, log, fd, os>>
     /\ ret'.res \in {"", "ok", "TaskNotFound", "NotRunning", "ESRCH",
                      "AgentNotFound", "NoOutputYet", "InvalidRegex"}
     /\ (ret' # ret /\ ret'.op = "spawn" /\ ret'.agent = "database") =>
          /\ ret'.res = "ok"
          /\ ret'.id \in DOMAIN runningAgents' \ DOMAIN runningAgents
          /\ runningAgents'[ret'.id].status = "running"
          /\ log'[ret'.id] = <<"header">>
     /\ \A t \in DOMAIN runningAgents :
          /\ (ret' # ret /\ ret'.op = "exit" /\ ret'.id = t) =>
               /\ runningAgents'[t].status =
                    (IF ret'.code = Some(0) THEN "completed" ELSE "failed")
               /\ runningAgents'[t].exitCode = ret'.code
               /\ log'[t] = Append(log[t], "footer")
               /\ fd'[t] = "closed"
          /\ (ret' # ret /\ ret'.op = "error" /\ ret'.id = t) =>
               /\ runningAgents'[t].status = "failed"
               /\ log'[t] = Append(log[t], "error")
               /\ fd'[t] = "closed"
          /\ (ret' # ret /\ ret'.op = "kill" /\ ret'.id = t) =>
               /\ ret'.res =
                    (IF runningAgents[t].status # "running" \/ runningAgents[t].pid = Null
                     THEN "NotRunning"
                     ELSE IF os[t] = "live" THEN "ok" ELSE "ESRCH")
               /\ ret'.res = "ok" => runningAgents'[t].status = "failed"
               /\ ret'.res # "ok" => runningAgents' = runningAgents
          /\ (ret' # ret /\ ret'.op = "getStatus" /\ ret'.id = t) =>
               /\ ret'.res = "ok"
               /\ ret'.status = runningAgents'[t].status
               /\ ret'.status =
                    (IF runningAgents[t].status = "running"
                        /\ runningAgents[t].pid # Null /\ os[t] # "live"
                     THEN "completed" ELSE runningAgents[t].status)]_vars

\* C14 happens: the exit handler finished although its Store write failed,
\* the row still says running
StoreFailedHandlerDone ==
  /\ ret.op = "exit" /\ ~db
  /\ ret.id \in DOMAIN store
  /\ store[ret.id].status = "running"
  /\ runningAgents[ret.id].status = "completed"
  /\ fd[ret.id] = "closed"

\* C15: a task's log file begins with the header block, a footer block is
\* there only when the process has exited, and nothing the subprocess
\* writes follows the footer.
FooterAfterExit ==
  \A t \in DOMAIN runningAgents :
    /\ log[t] # <<>>
    /\ log[t][1] = "header"
    /\ \A i \in DOMAIN log[t] :
         /\ log[t][i] = "header" => i = 1
         /\ log[t][i] = "footer" =>
              /\ os[t] = "gone"
              /\ i = Len(log[t])

\* C15 happens: header, subprocess output, footer
FooterAfterExitSeen ==
  \E t \in DOMAIN runningAgents : log[t] = <<"header", "usage", "footer">>

\* C16: the token counters of a Store row are never negative and never
\* decrease; they change at most once per task, in the exit handler, from
\* zero, and the row is already completed or failed when they do.
TokensWrittenOnce ==
  [][\A t \in DOMAIN store :
       /\ store[t].input_tokens >= 0 /\ store[t].output_tokens >= 0
       /\ store'[t].input_tokens >= store[t].input_tokens
       /\ store'[t].output_tokens >= store[t].output_tokens
       /\ (\/ store'[t].input_tokens # store[t].input_tokens
           \/ store'[t].output_tokens # store[t].output_tokens)
            => /\ store[t].input_tokens = 0 /\ store[t].output_tokens = 0
               /\ exitEv[t] # <<>> /\ exitEv'[t] = <<>>
               /\ \A i \in DOMAIN log[t] : log[t][i] # "footer"
               /\ store'[t].status \in {"completed", "failed"}
               /\ store'[t].completed_at # Null]_vars

\* C16 happens: the row of a completed task holds the counts of its log
TokensWrittenSeen ==
  \E t \in DOMAIN store :
    /\ store[t].status = "completed"
    /\ store[t].input_tokens = 1 /\ store[t].output_tokens = 1

\* C17: retention cleanup with a horizon of N days deletes exactly the task
\* rows that started before now - N days and are not running; the projects
\* and sessions tables are untouched.  (The start time is compared as text
\* with an ISO date: every row of the cutoff's calendar day counts as older,
\* whatever its time of day.)
SweepExactlyOlder ==
  [][http'.op = "cleanup" /\ http.op = "none" =>
       LET cut == [day |-> http'.now.day - http'.days, hour |-> http'.now.hour]
           older(ts) == ts.day < cut.day \/ (ts.day = cut.day /\ ts.hour < cut.hour)
       IN /\ \A id \in DOMAIN store :
               id \notin DOMAIN store' <=>
                 (older(store[id].started_at) /\ store[id].status # "running")
          /\ \A id \in DOMAIN store' : store'[id] = store[id]
          /\ UNCHANGED <<projects, sessions>>]_vars

\* C18: the delta log read returns the current size of the file and the
\* bytes of the file beyond the given offset; an offset at or beyond the
\* current size gives an empty delta and that size; a read at the size an
\* earlier read returned, with no write in between, gives an empty delta
\* and the same size.  (The size is counted in bytes and the offset is
\* applied as an index into the decoded text: after a character outside
\* ASCII the delta starts too far on.)
DeltaIsByteRange ==
  [][(http' # http /\ http'.op = "log" /\ http'.res = "ok" /\ log[http'.id] # <<>>) =>
       LET f == log[http'.id]
           r == http'.body
       IN /\ r.size = ByteSize(f)
          /\ http'.req >= r.size => r.content = <<>>
          /\ \A k \in 0..Len(f) :
               ByteSize(SubSeq(f, 1, k)) = http'.req
                 => r.content = SubSeq(f, k + 1, Len(f))
          /\ (/\ http.op = "log" /\ http.res = "ok" /\ http.id = http'.id
              /\ http.file = f /\ http'.req = http.body.size)
               => (r.content = <<>> /\ r.size = http.body.size)]_vars

\* C19: on a single-task log subscription the first frame is a snapshot of
\* the whole log, every later frame holds only what was appended since the
\* last frame, and no part of the log is sent in two frames: the frames put
\* end to end are a prefix of the log.  (The cursor is still 0 after the
\* snapshot, so the first later frame repeats the snapshot.)
LogFramesNeverRepeat ==
  (sub.state = "open" /\ sub.agentId # 0) =>
     /\ \A i \in DOMAIN sub.frames : sub.frames[i].reset <=> i = 1
     /\ Len(framesText(sub.frames)) <= Len(log[sub.agentId])
     /\ framesText(sub.frames) =
          SubSeq(log[sub.agentId], 1, Len(framesText(sub.frames)))

\* C20: once the client of a subscription has disconnected or an enqueue on
\* its stream has failed, its file watcher is closed and its keep-alive
\* timer is cleared.  (A failure of the first enqueue runs cleanup before
\* the watcher and the timer exist; they are created afterwards and no later
\* cleanup call gets past isClosed.  A signal that fired before its listener
\* was registered never calls cleanup.)
ReleasedWhenClosed ==
  (sub.state = "open" /\ (sub.gone \/ sub.failed)) =>
     (sub.fileWatcher # "watching" /\ sub.keepAlive # "ticking")

\* C21: every task a Supervisor with a Store has spawned has its own row in
\* the Store, with status running and the project and session of that
\* Supervisor.  (An INSERT that meets the other Supervisor's write in
\* progress throws, is logged, and the row is never written.)
SpawnedRowsStored ==
  \A s \in Sups : \A id \in peers[s].runningAgents :
     peers[s].db =>
       /\ id \in DOMAIN shared.agents
       /\ shared.agents[id] = [project_id |-> peers[s].projectId,
                               session_id |-> peers[s].sessionId,
                               status |-> "running"]

ResultTextOnce ==
  LET raw == parser.raw
      final == FirstPass(raw, Null)
      last == CHOOSE j \in DOMAIN raw :
                /\ raw[j].kind = "result" /\ Some(raw[j].text) = final
                /\ \A k \in DOMAIN raw : (k > j /\ raw[k].kind = "result") => raw[k].text = ""
      repeated == \E i \in DOMAIN raw :
                    /\ i < last /\ raw[i].kind = "assistant"
                    /\ \E b \in DOMAIN raw[i].content :
                          raw[i].content[b] = TextBlock(final[1])
      events == parser.entries[1]
      same == {i \in DOMAIN events : events[i].content = final[1]}
  IN (parser.calls > 0 /\ parser.entries # Null /\ final # Null /\ repeated) =>
       /\ Cardinality(same) = 1
       /\ \A i \in same : events[i].type = "result"

\* What a spawn that returned a task record has done besides starting the
\* process: one log file that was not there, one in-memory record with
\* status running, one Store row with status running when the Store is
\* open, nothing else touched, and the subprocess has not been waited for.
SpawnBookkeeping(t) ==
  /\ t \notin DOMAIN runningAgents
  /\ DOMAIN runningAgents' = DOMAIN runningAgents \cup {t}
  /\ \A u \in DOMAIN runningAgents : runningAgents'[u] = runningAgents[u]
  /\ runningAgents'[t].status = "running"
  /\ log[t] = <<>> /\ log'[t] = <<"header">>
  /\ \A u \in Ids \ {t} : log'[u] = log[u] /\ os'[u] = os[u]
  /\ IF db
     THEN /\ t \notin DOMAIN store
          /\ DOMAIN store' = DOMAIN store \cup {t}
          /\ store'[t].status = "running" /\ store'[t].pid = ret'.pid
     ELSE store' = store
  /\ \A u \in DOMAIN store : store'[u] = store[u]
  /\ ret'.status = "running" /\ exitEv'[t] = Null

\* C24 as stated: every spawn that returns a task record has started
\* exactly one OS process, besides its log file, record and row.
SpawnStartsProcess ==
  [][(ret' # ret /\ ret'.op = "spawn" /\ ret'.res = "ok") =>
       /\ SpawnBookkeeping(ret'.id)
       /\ os[ret'.id] = "none" /\ os'[ret'.id] = "live"]_vars

\* C24: every spawn that returns a task record has created its log file,
\* record and row and has not waited; it has started exactly one OS process
\* when the record has a pid, and none (the error event is queued) when the
\* pid is null.
SpawnStartsProcessIfPid ==
  [][(ret' # ret /\ ret'.op = "spawn" /\ ret'.res = "ok") =>
       /\ SpawnBookkeeping(ret'.id)
       /\ os[ret'.id] = "none"
       /\ IF ret'.pid # Null
          THEN os'[ret'.id] = "live" /\ ~errorEv'[ret'.id]
          ELSE os'[ret'.id] = "none" /\ errorEv'[ret'.id]]_vars

\* C24 happens: a spawn has just returned, the process runs, the Store has
\* the row
SpawnedWithRow ==
  /\ ret.op = "spawn" /\ ret.res = "ok" /\ ret.pid # Null
  /\ db /\ ret.id \in DOMAIN store /\ store[ret.id].status = "running"
  /\ os[ret.id] = "live" /\ log[ret.id] = <<"header">>

\* C25: reading or searching a task's activity changes no in-memory
\* record, no Store row and no file, and on a known task whose log file does
\* not exist it returns the "no output yet" marker, not an error.
ReadsChangeNothing ==
  [][(ret' # ret /\ ret'.op \in {"readActivity", "searchActivity"}) =>
       /\ UNCHANGED <<runningAgents, db, store, log, fd, os, termSent,
                      exitEv, errorEv>>
       /\ ret'.res = "NoOutputYet" <=> (Known(ret'.id) /\ log[ret'.id] = <<>>)]_vars

\* C25 happens: a search on a running task whose log file is not there
NoOutputYetSeen ==
  /\ ret.op = "searchActivity" /\ ret.res = "NoOutputYet"
  /\ Known(ret.id) /\ runningAgents[ret.id].status = "running"
  /\ log[ret.id] = <<>>

AtMostOneDashboard ==
  Cardinality({d \in DashIds : dash.procs[d].pc = "serving"}) <= 1

\* C28: whatever a reader of the Store sees, a task row has a completion
\* time exactly when its status is completed or failed, and an exit code
\* only then.
TerminalRowsHaveTime ==
  \A t \in DOMAIN store :
     /\ store[t].status \in {"running", "completed", "failed"}
     /\ store[t].status # "running" <=> store[t].completed_at # Null
     /\ store[t].exit_code # Null => store[t].status # "running"

\* C28 happens: the error handler has made a row terminal, with a completion
\* time and no exit code
TerminalRowSeen ==
  /\ ret.op = "error" /\ ret.id \in DOMAIN store
  /\ store[ret.id].status = "failed"
  /\ store[ret.id].completed_at = Some(Date)
  /\ store[ret.id].exit_code = Null

\* C29 as stated: a row whose status is running never has token counts.
RunningRowsHaveNoTokens ==
  \A t \in DOMAIN store :
     store[t].status = "running" =>
       (store[t].input_tokens = 0 /\ store[t].output_tokens = 0)

\* C29: token counts are written only by the statement that follows the
\* exit handler's status update, only when the parsed usage is not zero, and
\* the row they are written to is terminal unless the Store refused that
\* status update.
TokensFollowStatus ==
  [][\A t \in DOMAIN store :
       (\/ store'[t].input_tokens # store[t].input_tokens
        \/ store'[t].output_tokens # store[t].output_tokens) =>
          /\ ret.op = "exitStatus" /\ ret.id = t
          /\ runningAgents[t].status # "running"
          /\ parseTokenUsage(log[t]) > 0
          /\ store'[t].input_tokens = parseTokenUsage(log[t])
          /\ store'[t].output_tokens = parseTokenUsage(log[t])
          /\ ret.res = "ok" => store'[t].status # "running"]_vars

\* C29 happens: between the two statements a reader sees the row completed
\* with its token counts still 0, although the log has usage to report
TerminalBeforeTokensSeen ==
  /\ ret.op = "exitStatus" /\ ret.id \in DOMAIN store
  /\ store[ret.id].status = "completed"
  /\ store[ret.id].input_tokens = 0
  /\ parseTokenUsage(log[ret.id]) > 0

\* an all-agents subscription is open and its client still there
ViewerOpen ==
  /\ sub.state = "open"
  /\ sub.agentId = 0
  /\ ~sub.isClosed
  /\ ~sub.gone

\* the last frame the viewer received lists task t with status s
Shown(t, s) ==
  /\ sub.state = "open"
  /\ sub.frames # <<>>
  /\ LET last == sub.frames[Len(sub.frames)]
     IN /\ last.event = "agents"
        /\ t \in DOMAIN last.content
        /\ last.content[t] = s

\* C30: while a viewer holds an open all-agents subscription, a status that a
\* task row has in the Store is eventually shown by a frame, unless the row
\* moves on to another status or the subscription ends first.
ViewersCatchUp ==
  \A t \in Ids : \A s \in {"running", "completed", "failed"} :
     (ViewerOpen /\ t \in DOMAIN store /\ store[t].status = s)
       ~> (\/ ~ViewerOpen
           \/ t \notin DOMAIN store
           \/ store[t].status # s
           \/ Shown(t, s))

\* C31: the text the Dashboard Client has reassembled from the frames of a
\* task's log subscription is a prefix of that task's log file: every unit of
\* the log once and in file order.
ClientLogIsLogPrefix ==
  (sub.state = "open" /\ sub.agentId # 0) =>
     /\ Len(clientLog(sub.frames)) <= Len(log[sub.agentId])
     /\ clientLog(sub.frames) =
          SubSeq(log[sub.agentId], 1, Len(clientLog(sub.frames)))

\* C32: the events parsed from a task log are the events of the records the
\* subprocess wrote, each record classified once and in file order; the lines
\* of the header and of the footer and the lines that are not JSON add
\* nothing and take nothing away, whatever the header's task description is.
EveryRecordParsed ==
  (parser.calls > 0 /\ parser.entries # Null) =>
     parser.entries[1] = RecordEvents(parser.raw, FirstPass(parser.raw, Null))

\* the terminal blocks (footer, error block) in a log
TerminalBlocks(content) ==
  Cardinality({i \in DOMAIN content : content[i] \in {"footer", "error"}})

\* C33: a handler that closes a task's log descriptor finds it open, and a
\* log never holds more than one terminal block, whichever of the error and
\* exit events of the subprocess are delivered and in whichever order.
DescriptorClosedOnce ==
  [][\A t \in Ids :
       /\ (ret' # ret /\ ret'.op \in {"exit", "error"} /\ ret'.id = t)
            => fd[t] = "open"
       /\ TerminalBlocks(log'[t]) <= 1]_vars

\* C34 as stated: the row's status and exit code are the record's.
RowEqualsRecord ==
  \A t \in DOMAIN store :
     /\ Known(t)
     /\ store[t].status = runningAgents[t].status
     /\ store[t].exit_code = runningAgents[t].exitCode

\* C34: with the Store open, the row's status is the record's status after
\* every operation and handler; the row's exit code is the record's exit
\* code, except that the record has none while the row holds the sentinel
\* of a kill (failed, -1) or the 0 of a failed liveness probe (completed, 0).
RowFollowsRecord ==
  \A t \in DOMAIN store :
     /\ Known(t)
     /\ store[t].status = runningAgents[t].status
     /\ \/ store[t].exit_code = runningAgents[t].exitCode
        \/ /\ runningAgents[t].exitCode = Null
           /\ \/ store[t].status = "failed" /\ store[t].exit_code = Some(KillSentinel)
              \/ store[t].status = "completed" /\ store[t].exit_code = Some(0)

\* C34 happens: a kill has left the sentinel in the row and no exit code in
\* the record
KilledRowHasSentinel ==
  /\ ret.op = "kill" /\ ret.res = "ok"
  /\ ret.id \in DOMAIN store
  /\ store[ret.id].status = "failed" /\ runningAgents[ret.id].status = "failed"
  /\ store[ret.id].exit_code = Some(KillSentinel)
  /\ runningAgents[ret.id].exitCode = Null

\* C35: when two Supervisors of one project name have both found no row of
\* that name and have both finished initDashboardDB, there is one project
\* row of that name and each of them has its Store connection, that row's id
\* and an active session of its own.
BothRegistered ==
  \A s \in Sups : \A o \in Sups \ {s} :
     (/\ peers[s].pc = "up" /\ peers[o].pc = "up"
      /\ peers[s].name = peers[o].name
      /\ peers[s].existing = 0 /\ peers[o].existing = 0) =>
        /\ Cardinality({i \in DOMAIN shared.projects :
                          shared.projects[i] = peers[s].name}) = 1
        /\ peers[s].db
        /\ peers[s].projectId = ProjectId(peers[s].name)
        /\ peers[s].sessionId \in DOMAIN shared.sessions
        /\ shared.sessions[peers[s].sessionId].status = "active"

\* C36: no task row with status running belongs to a session whose status
\* is ended.
EndedSessionsHaveNoRunning ==
  \A id \in DOMAIN shared.agents :
     shared.agents[id].status = "running" =>
       shared.sessions[shared.agents[id].session_id].status # "ended"

\* C37: while a Dashboard Server is serving, the pid marker names a serving
\* Dashboard Server and the port marker holds the port of that server.
MarkersNameServer ==
  (\E d \in DashIds : dash.procs[d].pc = "serving") =>
     /\ dash.pidFile # Null
     /\ dash.procs[dash.pidFile[1]].pc = "serving"
     /\ dash.portFile = Some(dash.procs[dash.pidFile[1]].port)

\* C38: the text the polling log panel has accumulated for the selected task
\* is a prefix of that task's log file.
PolledLogIsPrefix ==
  poller.agentId # 0 =>
     /\ Len(poller.log) <= Len(log[poller.agentId])
     /\ poller.log = SubSeq(log[poller.agentId], 1, Len(poller.log))

\* the watcher of an all-agents subscription has a write to t's log to
\* report, and the footer is part of it
FooterUnseen(t) ==
  /\ sub.state = "open" /\ sub.agentId = 0 /\ ~sub.isClosed
  /\ sub.fileWatcher = "watching"
  /\ sub.seen[t] # <<>>
  /\ \E i \in DOMAIN log[t] : log[t][i] = "footer"
  /\ \A i \in DOMAIN sub.seen[t] : sub.seen[t][i] # "footer"

\* a frame is sent in this step
FrameSent == Len(sub'.frames) = Len(sub.frames) + 1

\* C39 as stated: a frame sent in reaction to the footer write never shows
\* the task as running.
FooterFrameNeverRunning ==
  [][\A t \in Ids :
       (FooterUnseen(t) /\ FrameSent /\ t \in DOMAIN store) =>
          sub'.frames[Len(sub'.frames)].content[t] # "running"]_vars

\* C39: the exit handler appends the footer after its status update: when
\* the footer is written the record is terminal, and so is the row if the
\* Store took the update; a row never goes back to running; a frame sent in
\* reaction to the footer write shows the task with the status its row has.
FooterFrameShowsRow ==
  [][\A t \in Ids :
       /\ (t \in DOMAIN store /\ store[t].status # "running") =>
            store'[t].status # "running"
       /\ (log'[t] # log[t] /\ log'[t][Len(log'[t])] = "footer") =>
            /\ ret.op = "exitStatus" /\ ret.id = t
            /\ runningAgents[t].status # "running"
            /\ (ret.res = "ok" /\ t \in DOMAIN store) => store[t].status # "running"
       /\ (FooterUnseen(t) /\ FrameSent /\ t \in DOMAIN store) =>
            sub'.frames[Len(sub'.frames)].content[t] = store[t].status]_vars

\* C39 happens: the last frame was sent after the footer was written and
\* shows the task completed
FooterFrameSeen ==
  /\ sub.state = "open" /\ sub.agentId = 0 /\ sub.frames # <<>>
  /\ Len(sub.frames) >= 2
  /\ \E t \in DOMAIN store :
       /\ log[t] # <<>> /\ log[t][Len(log[t])] = "footer"
       /\ sub.seen[t] = log[t]
       /\ sub.frames[Len(sub.frames)].content[t] = "completed"
       /\ sub.frames[Len(sub.frames) - 1].content[t] = "running"

====
